---- MODULE Spec2Model ----
(***************************************************************************)
(* A model of witffi: the name mapper (witffi-core/src/names.rs), the WIT  *)
(* loader (witffi-core/src/lib.rs), the shared FFI types                   *)
(* (witffi-types/src/lib.rs), the eip681 example bridge                    *)
(* (examples/eip681-ffi/src/lib.rs) and the two generation drivers         *)
(* (witffi-cli/src/main.rs, xtask/src/lib.rs).                             *)
(*                                                                         *)
(* Text is a sequence of one-character strings, so that case conversion    *)
(* and keyword escaping are computed character by character.               *)
(***************************************************************************)
EXTENDS Integers, Sequences, FiniteSets, TLC

(***************************************************************************)
(* Bounds of the model.                                                    *)
(***************************************************************************)
\* Longest WIT identifier, in kebab fragments, built from SmallFragments.
MaxFragments == 2

\* Longest byte vector or string handed to FfiByteBuffer, and largest capacity.
MaxLen == 2

MaxCap == 3

\* Buffers one caller makes.
MaxBufs == 2

\* Longest text field of an eip681 request.
MaxText == 2

\* Most bytes a String's allocation holds beyond its length.
MaxSlack == 1

\* Packages one WIT input yields, and worlds one package defines.
MaxPkgs == 2

MaxWorlds == 2

\* The most exports of a world.
MaxExports == 2

\* The most pointers a caller holds at once.
MaxPtrs == 3

(***************************************************************************)
(* Characters (ASCII) and the heck case conversions used by names.rs.      *)
(***************************************************************************)
Lower ==
    << "a","b","c","d","e","f","g","h","i","j","k","l","m",
       "n","o","p","q","r","s","t","u","v","w","x","y","z" >>

Upper ==
    << "A","B","C","D","E","F","G","H","I","J","K","L","M",
       "N","O","P","Q","R","S","T","U","V","W","X","Y","Z" >>

Digit == { "0","1","2","3","4","5","6","7","8","9" }

is_lowercase(c) == \E i \in DOMAIN Lower : Lower[i] = c

is_uppercase(c) == \E i \in DOMAIN Upper : Upper[i] = c

is_alphanumeric(c) == is_lowercase(c) \/ is_uppercase(c) \/ c \in Digit

to_uppercase(c) ==
    IF is_lowercase(c) THEN Upper[CHOOSE i \in DOMAIN Lower : Lower[i] = c] ELSE c

to_lowercase(c) ==
    IF is_uppercase(c) THEN Lower[CHOOSE i \in DOMAIN Upper : Upper[i] = c] ELSE c

\* heck: a word in lower case / in upper case / first letter upper, rest lower.
lowercase(w) == [i \in 1..Len(w) |-> to_lowercase(w[i])]

uppercase(w) == [i \in 1..Len(w) |-> to_uppercase(w[i])]

capitalize(w) ==
    IF w = <<>> THEN <<>> ELSE <<to_uppercase(w[1])>> \o lowercase(Tail(w))

\* str::split(|c| !c.is_alphanumeric()): the maximal alphanumeric runs of s,
\* an empty run between two adjacent separators included.
RECURSIVE split_runs(_, _, _, _)
split_runs(s, i, cur, acc) ==
    IF i > Len(s) THEN Append(acc, cur)
    ELSE IF is_alphanumeric(s[i]) THEN split_runs(s, i + 1, Append(cur, s[i]), acc)
    ELSE split_runs(s, i + 1, <<>>, Append(acc, cur))

\* heck::transform, the inner loop over one alphanumeric run: cut the run at a
\* lower-to-upper step and before the last capital of an acronym that is
\* followed by a lower-case letter.  mode is "Boundary", "Lowercase" or
\* "Uppercase"; init is the index at which the current word starts.
RECURSIVE run_words(_, _, _, _, _)
run_words(word, i, init, mode, acc) ==
    IF i > Len(word) THEN acc
    ELSE IF i = Len(word) THEN Append(acc, SubSeq(word, init, Len(word)))
    ELSE
      LET c == word[i]
          next == word[i + 1]
          next_mode == IF is_lowercase(c) THEN "Lowercase"
                       ELSE IF is_uppercase(c) THEN "Uppercase"
                       ELSE mode
      IN  IF next_mode = "Lowercase" /\ is_uppercase(next)
          THEN run_words(word, i + 1, i + 1, "Boundary",
                         Append(acc, SubSeq(word, init, i)))
          ELSE IF mode = "Uppercase" /\ is_uppercase(c) /\ is_lowercase(next)
          THEN run_words(word, i + 1, i, "Boundary",
                         Append(acc, SubSeq(word, init, i - 1)))
          ELSE run_words(word, i + 1, init, next_mode, acc)

RECURSIVE runs_words(_, _)
runs_words(runs, acc) ==
    IF runs = <<>> THEN acc
    ELSE runs_words(Tail(runs), run_words(Head(runs), 1, 1, "Boundary", acc))

\* heck::transform: the words of s, in order.
heck_words(s) == runs_words(split_runs(s, 1, <<>>, <<>>), <<>>)

RECURSIVE join(_, _)
join(ws, sep) ==
    IF ws = <<>> THEN <<>>
    ELSE IF Len(ws) = 1 THEN ws[1]
    ELSE ws[1] \o sep \o join(Tail(ws), sep)

to_snake_case(s) ==
    LET ws == heck_words(s) IN join([i \in 1..Len(ws) |-> lowercase(ws[i])], <<"_">>)

to_shouty_snake_case(s) ==
    LET ws == heck_words(s) IN join([i \in 1..Len(ws) |-> uppercase(ws[i])], <<"_">>)

to_pascal_case(s) ==
    LET ws == heck_words(s) IN join([i \in 1..Len(ws) |-> capitalize(ws[i])], <<>>)

to_lower_camel_case(s) ==
    LET ws == heck_words(s)
    IN  join([i \in 1..Len(ws) |->
                IF i = 1 THEN lowercase(ws[i]) ELSE capitalize(ws[i])], <<>>)

(***************************************************************************)
(* names.rs: the keyword lists and the escape functions.                   *)
(***************************************************************************)
\* names.rs escape_go_keyword: reserved keywords and predeclared identifiers.
GoKeywords ==
    { <<"b","r","e","a","k">>, <<"c","a","s","e">>, <<"c","h","a","n">>,
      <<"c","o","n","s","t">>, <<"c","o","n","t","i","n","u","e">>,
      <<"d","e","f","a","u","l","t">>, <<"d","e","f","e","r">>, <<"e","l","s","e">>,
      <<"f","a","l","l","t","h","r","o","u","g","h">>, <<"f","o","r">>, <<"f","u","n","c">>,
      <<"g","o">>, <<"g","o","t","o">>, <<"i","f">>, <<"i","m","p","o","r","t">>,
      <<"i","n","t","e","r","f","a","c","e">>, <<"m","a","p">>,
      <<"p","a","c","k","a","g","e">>, <<"r","a","n","g","e">>, <<"r","e","t","u","r","n">>,
      <<"s","e","l","e","c","t">>, <<"s","t","r","u","c","t">>, <<"s","w","i","t","c","h">>,
      <<"t","y","p","e">>, <<"v","a","r">>, <<"l","e","n">>, <<"c","a","p">>,
      <<"m","a","k","e">>, <<"n","e","w">>, <<"a","p","p","e","n","d">>, <<"c","o","p","y">>,
      <<"d","e","l","e","t","e">>, <<"c","l","o","s","e">>, <<"p","a","n","i","c">>,
      <<"r","e","c","o","v","e","r">>, <<"p","r","i","n","t">>,
      <<"p","r","i","n","t","l","n">>, <<"e","r","r","o","r">>, <<"s","t","r","i","n","g">>,
      <<"b","o","o","l">>, <<"i","n","t">>, <<"u","i","n","t">>, <<"b","y","t","e">>,
      <<"r","u","n","e">>, <<"f","l","o","a","t","3","2">>, <<"f","l","o","a","t","6","4">>,
      <<"c","o","m","p","l","e","x","6","4">>, <<"c","o","m","p","l","e","x","1","2","8">>,
      <<"t","r","u","e">>, <<"f","a","l","s","e">>, <<"n","i","l">>, <<"i","o","t","a">> }

\* names.rs escape_rust_keyword: the match arms' string patterns.
RustKeywords ==
    { <<"a","s">>, <<"b","r","e","a","k">>, <<"c","o","n","s","t">>,
      <<"c","o","n","t","i","n","u","e">>, <<"c","r","a","t","e">>, <<"e","l","s","e">>,
      <<"e","n","u","m">>, <<"e","x","t","e","r","n">>, <<"f","a","l","s","e">>, <<"f","n">>,
      <<"f","o","r">>, <<"i","f">>, <<"i","m","p","l">>, <<"i","n">>, <<"l","e","t">>,
      <<"l","o","o","p">>, <<"m","a","t","c","h">>, <<"m","o","d">>, <<"m","o","v","e">>,
      <<"m","u","t">>, <<"p","u","b">>, <<"r","e","f">>, <<"r","e","t","u","r","n">>,
      <<"s","e","l","f">>, <<"S","e","l","f">>, <<"s","t","a","t","i","c">>,
      <<"s","t","r","u","c","t">>, <<"s","u","p","e","r">>, <<"t","r","a","i","t">>,
      <<"t","r","u","e">>, <<"t","y","p","e">>, <<"u","n","s","a","f","e">>, <<"u","s","e">>,
      <<"w","h","e","r","e">>, <<"w","h","i","l","e">>, <<"a","s","y","n","c">>,
      <<"a","w","a","i","t">>, <<"d","y","n">>, <<"a","b","s","t","r","a","c","t">>,
      <<"b","e","c","o","m","e">>, <<"b","o","x">>, <<"d","o">>, <<"f","i","n","a","l">>,
      <<"m","a","c","r","o">>, <<"o","v","e","r","r","i","d","e">>, <<"p","r","i","v">>,
      <<"t","y","p","e","o","f">>, <<"u","n","s","i","z","e","d">>,
      <<"v","i","r","t","u","a","l">>, <<"y","i","e","l","d">>, <<"t","r","y">> }

\* names.rs escape_kotlin_keyword: hard and soft keywords.
KotlinKeywords ==
    { <<"a","s">>, <<"b","r","e","a","k">>, <<"c","l","a","s","s">>,
      <<"c","o","n","t","i","n","u","e">>, <<"d","o">>, <<"e","l","s","e">>,
      <<"f","a","l","s","e">>, <<"f","o","r">>, <<"f","u","n">>, <<"i","f">>, <<"i","n">>,
      <<"i","n","t","e","r","f","a","c","e">>, <<"i","s">>, <<"n","u","l","l">>,
      <<"o","b","j","e","c","t">>, <<"p","a","c","k","a","g","e">>,
      <<"r","e","t","u","r","n">>, <<"s","u","p","e","r">>, <<"t","h","i","s">>,
      <<"t","h","r","o","w">>, <<"t","r","u","e">>, <<"t","r","y">>,
      <<"t","y","p","e","a","l","i","a","s">>, <<"t","y","p","e","o","f">>, <<"v","a","l">>,
      <<"v","a","r">>, <<"w","h","e","n">>, <<"w","h","i","l","e">>, <<"b","y">>,
      <<"c","a","t","c","h">>, <<"c","o","m","p","a","n","i","o","n">>,
      <<"c","o","n","s","t","r","u","c","t","o","r">>, <<"d","a","t","a">>,
      <<"d","y","n","a","m","i","c">>, <<"f","i","n","a","l","l","y">>,
      <<"i","m","p","o","r","t">>, <<"i","n","i","t">>, <<"i","n","n","e","r">>, <<"i","t">>,
      <<"o","u","t">>, <<"s","e","a","l","e","d">>, <<"w","h","e","r","e">> }

\* names.rs escape_swift_keyword: the match arms' string patterns.
SwiftKeywords ==
    { <<"a","s","s","o","c","i","a","t","e","d","t","y","p","e">>, <<"c","l","a","s","s">>,
      <<"d","e","i","n","i","t">>, <<"e","n","u","m">>,
      <<"e","x","t","e","n","s","i","o","n">>, <<"f","i","l","e","p","r","i","v","a","t","e">>,
      <<"f","u","n","c">>, <<"i","m","p","o","r","t">>, <<"i","n","i","t">>,
      <<"i","n","o","u","t">>, <<"i","n","t","e","r","n","a","l">>, <<"l","e","t">>,
      <<"o","p","e","n">>, <<"o","p","e","r","a","t","o","r">>,
      <<"p","r","i","v","a","t","e">>, <<"p","r","o","t","o","c","o","l">>,
      <<"p","u","b","l","i","c">>, <<"r","e","t","h","r","o","w","s">>,
      <<"s","t","a","t","i","c">>, <<"s","t","r","u","c","t">>,
      <<"s","u","b","s","c","r","i","p","t">>, <<"s","u","p","e","r">>,
      <<"t","y","p","e","a","l","i","a","s">>, <<"v","a","r">>, <<"b","r","e","a","k">>,
      <<"c","a","s","e">>, <<"c","o","n","t","i","n","u","e">>,
      <<"d","e","f","a","u","l","t">>, <<"d","e","f","e","r">>, <<"d","o">>,
      <<"e","l","s","e">>, <<"f","a","l","l","t","h","r","o","u","g","h">>, <<"f","o","r">>,
      <<"g","u","a","r","d">>, <<"i","f">>, <<"i","n">>, <<"r","e","p","e","a","t">>,
      <<"r","e","t","u","r","n">>, <<"s","w","i","t","c","h">>, <<"w","h","e","r","e">>,
      <<"w","h","i","l","e">>, <<"a","s">>, <<"c","a","t","c","h">>, <<"f","a","l","s","e">>,
      <<"i","s">>, <<"n","i","l">>, <<"s","e","l","f">>, <<"S","e","l","f">>,
      <<"t","h","r","o","w">>, <<"t","h","r","o","w","s">>, <<"t","r","u","e">>,
      <<"t","r","y">>, <<"a","s","y","n","c">>, <<"a","w","a","i","t">> }

\* The character U+0060 (the module syntax has no string literal holding it).
Backtick == "BACKTICK"

escape_go_keyword(name) == IF name \in GoKeywords THEN name \o <<"_">> ELSE name

escape_rust_keyword(name) == IF name \in RustKeywords THEN name \o <<"_">> ELSE name

\* escape_kotlin_keyword escaping the way Rust and Go do.
escape_kotlin_keyword_suffixed(name) ==
    IF name \in KotlinKeywords THEN name \o <<"_">> ELSE name

escape_kotlin_keyword(name) ==
    IF name \in KotlinKeywords THEN <<Backtick>> \o name \o <<Backtick>> ELSE name

escape_swift_keyword(name) ==
    IF name \in SwiftKeywords THEN <<Backtick>> \o name \o <<Backtick>> ELSE name

(***************************************************************************)
(* names.rs: the mapping operations.                                       *)
(***************************************************************************)
to_rust_type(name) == to_pascal_case(name)

\* to_rust_ident joining the words without a separator.
to_rust_ident_flat(name) ==
    escape_rust_keyword(SelectSeq(to_snake_case(name), LAMBDA c : c # "_"))

to_rust_ident(name) == escape_rust_keyword(to_snake_case(name))

to_c_type(prefix, name) == prefix \o to_pascal_case(name)

\* to_c_func keeping the prefix as it is given.
to_c_func_verbatim(prefix, name) == prefix \o <<"_">> \o to_snake_case(name)

to_c_func(prefix, name) == to_snake_case(prefix) \o <<"_">> \o to_snake_case(name)

to_c_enum_variant(prefix, name) ==
    to_shouty_snake_case(prefix) \o <<"_">> \o to_shouty_snake_case(name)

to_swift_type(name) == to_pascal_case(name)

to_swift_ident(name) == escape_swift_keyword(to_lower_camel_case(name))

to_kotlin_type(name) == to_pascal_case(name)

to_kotlin_ident(name) == escape_kotlin_keyword(to_lower_camel_case(name))

to_go_type(name) == escape_go_keyword(to_pascal_case(name))

to_go_func(name) == escape_go_keyword(to_pascal_case(name))

to_go_field(name) == escape_go_keyword(to_pascal_case(name))

to_go_ident(name) == escape_go_keyword(to_lower_camel_case(name))

\* The operations by name, as a caller selects them.  The C operations take the
\* configured prefix; the others ignore it.
MapName(op, prefix, name) ==
    CASE op = "to_rust_type"      -> to_rust_type(name)
      [] op = "to_rust_ident"     -> to_rust_ident(name)
      [] op = "to_c_type"         -> to_c_type(prefix, name)
      [] op = "to_c_func"         -> to_c_func(prefix, name)
      [] op = "to_c_enum_variant" -> to_c_enum_variant(prefix, name)
      [] op = "to_swift_type"     -> to_swift_type(name)
      [] op = "to_swift_ident"    -> to_swift_ident(name)
      [] op = "to_kotlin_type"    -> to_kotlin_type(name)
      [] op = "to_kotlin_ident"   -> to_kotlin_ident(name)
      [] op = "to_go_type"        -> to_go_type(name)
      [] op = "to_go_func"        -> to_go_func(name)
      [] op = "to_go_field"       -> to_go_field(name)
      [] op = "to_go_ident"       -> to_go_ident(name)

(***************************************************************************)
(* The WIT identifiers the mapper is applied to.  A WIT label is a         *)
(* sequence of fragments joined by "-"; a fragment is a word (a lower-case *)
(* letter, then lower-case letters and digits) or an acronym (the same in  *)
(* upper case).                                                            *)
(***************************************************************************)
IsWitFragment(w) ==
    /\ w # <<>>
    /\ \/ \A i \in 1..Len(w) :
             is_lowercase(w[i]) \/ (i > 1 /\ w[i] \in Digit)
       \/ \A i \in 1..Len(w) :
             is_uppercase(w[i]) \/ (i > 1 /\ w[i] \in Digit)

SmallFragments ==
    { <<"a">>, <<"a","a">>, <<"A">>, <<"s","e","l","f">>, <<"t","y","p","e">> }

CompoundIdents ==
    { join(fs, <<"-">>) :
        fs \in UNION { [1..k -> SmallFragments] : k \in 1..MaxFragments } }

\* Every keyword of every target that is a legal WIT label, taken as input.
KeywordIdents ==
    { k \in GoKeywords \cup RustKeywords \cup KotlinKeywords \cup SwiftKeywords :
        IsWitFragment(k) }

\* Identifiers of the eip681 world and of the unit tests of names.rs.
SampleIdents ==
    { <<"c","h","a","i","n","-","i","d">>,
      <<"u","2","5","6">>,
      <<"f","o","o","-","b","a","r">>,
      <<"g","e","t","-","J","S","O","N">> }

WitIdents == KeywordIdents \cup CompoundIdents \cup SampleIdents

\* A scope holds one identifier, or two distinct ones (two fields of a record,
\* two types of a world).
Scopes ==
    { <<i>> : i \in WitIdents }
      \cup { <<s[1], s[2]>> : s \in { p \in CompoundIdents \X CompoundIdents : p[1] # p[2] } }

\* C prefixes: the CLI defaults (main.rs) and the xtask configuration.
Prefixes ==
    { <<"F","f","i">>,
      <<"w","i","t","f","f","i">>,
      <<"z","c","a","s","h","_","e","i","p","6","8","1">> }

PlainOps ==
    { "to_rust_type", "to_rust_ident", "to_swift_type", "to_swift_ident",
      "to_kotlin_type", "to_kotlin_ident",
      "to_go_type", "to_go_func", "to_go_field", "to_go_ident" }

PrefixOps == { "to_c_type", "to_c_func", "to_c_enum_variant" }

\* MapName tabulated over the operations, prefixes and identifiers in use, so
\* that a call is a look-up.
NameTable ==
    [op \in PlainOps \cup PrefixOps |->
        [p \in Prefixes \cup {<<>>} |->
            [n \in WitIdents |-> MapName(op, p, n)]]]

(***************************************************************************)
(* Memory: the heap the FFI types allocate from.                           *)
(*                                                                         *)
(* The heap is the sequence of all allocations ever made; an allocation's  *)
(* address is its index.  Pointer 0 is null; Dangling is the non-null      *)
(* pointer of a Vec that has allocated nothing (capacity 0).               *)
(***************************************************************************)
Null == 0

Dangling == -1

\* What the allocator may do when it is handed a block with a layout other than
\* the one the block was allocated with, a block that is not live, or a pointer
\* that is no block at all: undefined behaviour, of which three outcomes are
\* kept apart.  The call returns and the block is released; the call returns
\* and the allocator's state is damaged; the process is killed (SIGSEGV).
UBOutcomes == { "released", "corrupt", "killed" }

\* The process that owns the heap has been killed.
Killed(h) == \E a \in DOMAIN h : h[a].state = "killed"


\* F applied to a: names an intermediate result.
Then(a, F(_)) == F(a)

\* alloc::alloc: a new live block.  kind is "bytes" (a Vec<u8> or String buffer
\* of `size` bytes capacity) or "box" (a Box<T>, size not tracked: 0).
Allocate(h, kind, size, data, what) ==
    [ h   |-> Append(h, [kind |-> kind, size |-> size, data |-> data,
                         what |-> what, state |-> "live"]),
      ptr |-> Len(h) + 1 ]

\* alloc::dealloc(ptr, layout of `size` bytes): releases a live block handed
\* over with its own layout; every other call is undefined behaviour.  For a
\* pointer that is no block there is nothing to release: the allocator is
\* damaged or the process killed, which the heap records as an entry of kind
\* "wild".  A killed process does nothing more.
Deallocate(h, ptr, size, ub) ==
    IF Killed(h) THEN h
    ELSE IF ptr \notin DOMAIN h
    THEN Append(h, [ kind |-> "wild", size |-> size, data |-> <<>>,
                     what |-> "dealloc",
                     state |-> IF ub = "killed" THEN "killed" ELSE "corrupt" ])
    ELSE IF h[ptr].state = "live" /\ h[ptr].size = size
    THEN [h EXCEPT ![ptr].state = "freed"]
    ELSE IF ub = "killed"
    THEN [h EXCEPT ![ptr].state = "killed"]
    ELSE IF h[ptr].state = "live" /\ ub = "released"
    THEN [h EXCEPT ![ptr].state = "freed"]
    ELSE [h EXCEPT ![ptr].state = "corrupt"]

\* A Vec<u8> (or the bytes of a String) of the given contents and capacity:
\* nothing is allocated for capacity 0.
VecWithCapacity(h, data, cap, what) ==
    IF cap = 0
    THEN [ h |-> h, v |-> [ptr |-> Dangling, len |-> 0, cap |-> 0] ]
    ELSE Then(Allocate(h, "bytes", cap, data, what), LAMBDA a :
           [ h |-> a.h, v |-> [ptr |-> a.ptr, len |-> Len(data), cap |-> cap] ])

(***************************************************************************)
(* witffi-types/src/lib.rs: FfiByteBuffer, option_to_ptr, free_ptr.        *)
(***************************************************************************)
\* FfiByteBuffer::empty
FfiByteBuffer_empty == [ptr |-> Null, len |-> 0]

\* FfiByteBuffer::from_vec taking the Vec's capacity for the length.
FfiByteBuffer_from_vec_capacity(v) == [ptr |-> v.ptr, len |-> v.cap]

\* FfiByteBuffer::from_vec: the Vec's pointer and length; the capacity is not
\* kept, and mem::forget leaves the Vec's block allocated.
FfiByteBuffer_from_vec(v) == [ptr |-> v.ptr, len |-> v.len]

\* FfiByteBuffer::from_string: String::into_bytes is the same Vec.
FfiByteBuffer_from_string(s) == FfiByteBuffer_from_vec(s)

\* Vec::from_raw_parts(self.ptr, self.len, self.len): the Vec that free
\* rebuilds and drops, its capacity being the buffer's length.
free_raw_parts(buf) == [ptr |-> buf.ptr, len |-> buf.len, cap |-> buf.len]

\* FfiByteBuffer::free: drop(Vec::from_raw_parts(ptr, len, len)) when the
\* pointer is non-null and the length positive, nothing otherwise.
FfiByteBuffer_free(h, buf, ub) ==
    IF buf.ptr # Null /\ buf.len > 0
    THEN Deallocate(h, free_raw_parts(buf).ptr, free_raw_parts(buf).cap, ub)
    ELSE h

\* option_to_ptr<T> and free_ptr<T> are generic.  Of the pointee type T two
\* things matter to them.  Whether it is zero-sized: a Box of a zero-sized
\* value allocates nothing and its pointer is dangling.  Whether it owns heap
\* memory that its drop releases: String does; u64 and the #[repr(C)] structs
\* handed over the FFI, FfiByteBuffer among them, do not.
zero_sized(T) == T = "()"

\* The only value of the type ().
Unit == << >>

\* ptr::drop_in_place of a pointee: a String releases its buffer with the
\* capacity it was allocated with, if it has one.
drop_in_place(h, T, val, ub) ==
    IF T = "String" /\ val.cap > 0
    THEN Deallocate(h, val.ptr, val.cap, ub)
    ELSE h

\* option_to_ptr boxing None as well.
option_to_ptr_boxing_none(h, T, v, what) ==
    Allocate(h, "box", 0, IF v = <<>> THEN <<>> ELSE v[1], what)

\* option_to_ptr: Box::into_raw(Box::new(val)) for Some(val), null for None.
\* An Option is a sequence of length 0 (None) or 1 (Some).
option_to_ptr(h, T, v, what) ==
    IF v = <<>>
    THEN [ h |-> h, ptr |-> Null ]
    ELSE IF zero_sized(T)
    THEN [ h |-> h, ptr |-> Dangling ]
    ELSE Allocate(h, "box", 0, v[1], what)

\* free_ptr: drop(Box::from_raw(ptr)) unless the pointer is null.  Dropping
\* the Box drops the pointee, then releases the box; for a zero-sized pointee
\* there is neither.  A pointer that is no live box is undefined behaviour.
free_ptr(h, T, ptr, ub) ==
    IF ptr = Null \/ zero_sized(T) THEN h
    ELSE IF ptr \in DOMAIN h /\ h[ptr].kind = "box" /\ h[ptr].state = "live"
    THEN Deallocate(drop_in_place(h, T, h[ptr].data, ub), ptr, 0, ub)
    ELSE Deallocate(h, ptr, 0, ub)

(***************************************************************************)
(* examples/eip681-ffi/src/lib.rs: the bridge from eip681 requests to the  *)
(* generated repr(C) types.  Each conversion takes the heap and returns    *)
(* the heap after its allocations together with the value built.           *)
(***************************************************************************)
\* Width of a U256 on the wire, in bytes.
U256Bytes == 32

\* U256::to_big_endian into n bytes.
RECURSIVE to_big_endian(_, _)
to_big_endian(v, n) ==
    IF n = 0 THEN <<>> ELSE Append(to_big_endian(v \div 256, n - 1), v % 256)

\* NewString borrowing the bytes of the caller's input instead of copying.
NewString_borrowed(h, text, slack, what) ==
    [ h |-> h,
      v |-> [ ptr |-> CHOOSE a \in DOMAIN h : h[a].what = "input",
              len |-> Len(text), cap |-> Len(text) + slack[what] ] ]

\* An owned String of the given text (to_string, format!): its capacity is at
\* least its length.  Each String is sized on its own: `slack` gives, for the
\* field the String is made for, what its allocation holds beyond the text
\* (nothing for str::to_string, the growth of the buffer for a String filled
\* through fmt).
NewString(h, text, slack, what) ==
    VecWithCapacity(h, text, Len(text) + slack[what], what)

\* u256_to_ffi: vec![0u8; 32], filled big-endian, handed over with from_vec.
u256_to_ffi(h, v, what) ==
    Then(VecWithCapacity(h, to_big_endian(v, U256Bytes), U256Bytes, what),
         LAMBDA vec : [ h |-> vec.h, v |-> FfiByteBuffer_from_vec(vec.v) ])

\* option_to_ptr(opt.map(u256_to_ffi)): the buffer first, then its box.
opt_u256_to_ptr(h, opt, what, what_buf) ==
    IF opt = <<>>
    THEN option_to_ptr(h, "FfiByteBuffer", <<>>, what)
    ELSE Then(u256_to_ffi(h, opt[1], what_buf),
              LAMBDA b : option_to_ptr(b.h, "FfiByteBuffer", <<b.v>>, what))

\* native_to_ffi: the fields in the order the struct literal evaluates them.
native_to_ffi(h, r, slack) ==
    LET sp == NewString(h, r.schema_prefix, slack, "schema_prefix")
        ci == option_to_ptr(sp.h, "u64", r.chain_id, "chain_id")
        ra == NewString(ci.h, r.recipient_address, slack, "recipient_address")
        va == opt_u256_to_ptr(ra.h, r.value_atomic, "value_atomic", "value_atomic.buf")
        gl == opt_u256_to_ptr(va.h, r.gas_limit, "gas_limit", "gas_limit.buf")
        gp == opt_u256_to_ptr(gl.h, r.gas_price, "gas_price", "gas_price.buf")
        di == NewString(gp.h, r.display, slack, "display")
    IN  [ h |-> di.h,
          v |-> [ schema_prefix     |-> FfiByteBuffer_from_string(sp.v),
                  chain_id          |-> ci.ptr,
                  recipient_address |-> FfiByteBuffer_from_string(ra.v),
                  value_atomic      |-> va.ptr,
                  gas_limit         |-> gl.ptr,
                  gas_price         |-> gp.ptr,
                  display           |-> FfiByteBuffer_from_string(di.v) ] ]

\* erc20_to_ffi
erc20_to_ffi(h, r, slack) ==
    LET ci == option_to_ptr(h, "u64", r.chain_id, "chain_id")
        tc == NewString(ci.h, r.token_contract_address, slack, "token_contract_address")
        ra == NewString(tc.h, r.recipient_address, slack, "recipient_address")
        va == u256_to_ffi(ra.h, r.value_atomic, "value_atomic.buf")
        di == NewString(va.h, r.display, slack, "display")
    IN  [ h |-> di.h,
          v |-> [ chain_id               |-> ci.ptr,
                  token_contract_address |-> FfiByteBuffer_from_string(tc.v),
                  recipient_address      |-> FfiByteBuffer_from_string(ra.v),
                  value_atomic           |-> va.v,
                  display                |-> FfiByteBuffer_from_string(di.v) ] ]

\* tx_request_to_ffi storing the ERC-20 payload in the field of the native case.
tx_request_to_ffi_misplaced(h, r, slack) ==
    CASE r.kind = "native" ->
           Then(native_to_ffi(h, r, slack), LAMBDA n :
           Then(Allocate(n.h, "box", 0, [value |-> n.v], "payload"), LAMBDA b :
             [ h |-> b.h,
               v |-> [tag |-> "Native", native |-> b.ptr,
                      erc20 |-> Null, unrecognised |-> Null] ]))
      [] r.kind = "erc20" ->
           Then(erc20_to_ffi(h, r, slack), LAMBDA e :
           Then(Allocate(e.h, "box", 0, [value |-> e.v], "payload"), LAMBDA b :
             [ h |-> b.h,
               v |-> [tag |-> "Erc20", native |-> b.ptr,
                      erc20 |-> Null, unrecognised |-> Null] ]))
      [] r.kind = "unrecognised" ->
           Then(NewString(h, r.raw, slack, "raw"), LAMBDA s :
           Then(Allocate(s.h, "box", 0,
                         [value |-> FfiByteBuffer_from_string(s.v)], "payload"),
                LAMBDA b :
             [ h |-> b.h,
               v |-> [tag |-> "Unrecognised", native |-> Null,
                      erc20 |-> Null, unrecognised |-> b.ptr] ]))

\* tx_request_to_ffi: the payload is converted, boxed, and its pointer stored
\* in the field of its case; the other two fields are null.
tx_request_to_ffi(h, r, slack) ==
    CASE r.kind = "native" ->
           Then(native_to_ffi(h, r, slack), LAMBDA n :
           Then(Allocate(n.h, "box", 0, [value |-> n.v], "payload"), LAMBDA b :
             [ h |-> b.h,
               v |-> [tag |-> "Native", native |-> b.ptr,
                      erc20 |-> Null, unrecognised |-> Null] ]))
      [] r.kind = "erc20" ->
           Then(erc20_to_ffi(h, r, slack), LAMBDA e :
           Then(Allocate(e.h, "box", 0, [value |-> e.v], "payload"), LAMBDA b :
             [ h |-> b.h,
               v |-> [tag |-> "Erc20", native |-> Null,
                      erc20 |-> b.ptr, unrecognised |-> Null] ]))
      [] r.kind = "unrecognised" ->
           Then(NewString(h, r.raw, slack, "raw"), LAMBDA s :
           Then(Allocate(s.h, "box", 0,
                         [value |-> FfiByteBuffer_from_string(s.v)], "payload"),
                LAMBDA b :
             [ h |-> b.h,
               v |-> [tag |-> "Unrecognised", native |-> Null,
                      erc20 |-> Null, unrecognised |-> b.ptr] ]))

\* parser_parse converting an empty request next to the error.
parser_parse_with_payload(h, parsed_input, slack) ==
    IF parsed_input.kind = "error"
    THEN Then(NewString(h, parsed_input.text, slack, "error"), LAMBDA s :
         Then(Allocate(s.h, "box", 0, [value |-> FfiByteBuffer_empty], "payload"),
              LAMBDA b : [ h |-> b.h, v |-> [ok |-> FALSE, err |-> s.v] ]))
    ELSE Then(tx_request_to_ffi(h, parsed_input, slack), LAMBDA t :
           [ h |-> t.h, v |-> [ok |-> TRUE, value |-> t.v] ])

\* Impl::parser_parse: TransactionRequest::parse(input), then tx_request_to_ffi
\* on success and format!("{e}") on failure.  `parsed` is what the eip681 parser
\* makes of the input: a request, or an error with its text.
parser_parse(h, parsed_input, slack) ==
    IF parsed_input.kind = "error"
    THEN Then(NewString(h, parsed_input.text, slack, "error"), LAMBDA s :
           [ h |-> s.h, v |-> [ok |-> FALSE, err |-> s.v] ])
    ELSE Then(tx_request_to_ffi(h, parsed_input, slack), LAMBDA t :
           [ h |-> t.h, v |-> [ok |-> TRUE, value |-> t.v] ])
(***************************************************************************)
(* The generated C entry point and free function of the eip681 world.      *)
(* Their generator is not part of the sources modelled here; they follow   *)
(* the specification: result<Ok, Err> is returned as {tag, ok_payload,     *)
(* err_payload} with the OK payload behind an owned pointer, and the free  *)
(* function releases every owned buffer and pointer of the value, buffers  *)
(* with FfiByteBuffer::free and pointers with free_ptr.                    *)
(***************************************************************************)
exported_parser_parse(h, parsed_input, slack) ==
    Then(parser_parse(h, parsed_input, slack), LAMBDA r :
      IF r.v.ok
      THEN Then(Allocate(r.h, "box", 0, r.v.value, "ok"), LAMBDA b :
             [ h |-> b.h,
               v |-> [tag |-> "ok", ok |-> b.ptr, err |-> FfiByteBuffer_empty] ])
      ELSE [ h |-> r.h,
             v |-> [tag |-> "err", ok |-> Null,
                    err |-> FfiByteBuffer_from_string(r.v.err)] ])

\* What the release of the String made for `what` does should it be undefined
\* behaviour: each deallocation has an outcome of its own.  The deallocations
\* of boxes and of u256 buffers use the layout of their allocation.
OutcomeFor(ub, what) == IF what \in DOMAIN ub THEN ub[what] ELSE "killed"

\* An option<u256> field: the boxed buffer's bytes, then the box.
free_opt_buffer(h, p, ub) ==
    IF p = Null THEN h
    ELSE free_ptr(FfiByteBuffer_free(h, h[p].data, OutcomeFor(ub, "u256")),
                  "FfiByteBuffer", p, OutcomeFor(ub, "box"))

free_native_request(h, n, ub) ==
    LET h1 == FfiByteBuffer_free(h, n.schema_prefix, OutcomeFor(ub, "schema_prefix"))
        h2 == free_ptr(h1, "u64", n.chain_id, OutcomeFor(ub, "box"))
        h3 == FfiByteBuffer_free(h2, n.recipient_address,
                                 OutcomeFor(ub, "recipient_address"))
        h4 == free_opt_buffer(h3, n.value_atomic, ub)
        h5 == free_opt_buffer(h4, n.gas_limit, ub)
        h6 == free_opt_buffer(h5, n.gas_price, ub)
    IN  FfiByteBuffer_free(h6, n.display, OutcomeFor(ub, "display"))

free_erc20_request(h, e, ub) ==
    LET h1 == free_ptr(h, "u64", e.chain_id, OutcomeFor(ub, "box"))
        h2 == FfiByteBuffer_free(h1, e.token_contract_address,
                                 OutcomeFor(ub, "token_contract_address"))
        h3 == FfiByteBuffer_free(h2, e.recipient_address,
                                 OutcomeFor(ub, "recipient_address"))
        h4 == FfiByteBuffer_free(h3, e.value_atomic, OutcomeFor(ub, "u256"))
    IN  FfiByteBuffer_free(h4, e.display, OutcomeFor(ub, "display"))

\* The payload of the discriminated case, then its box.
free_transaction_request(h, t, ub) ==
    CASE t.tag = "Native" /\ t.native # Null ->
           free_ptr(free_native_request(h, h[t.native].data.value, ub),
                    "FfiTransactionRequestNativePayload", t.native, OutcomeFor(ub, "box"))
      [] t.tag = "Erc20" /\ t.erc20 # Null ->
           free_ptr(free_erc20_request(h, h[t.erc20].data.value, ub),
                    "FfiTransactionRequestErc20Payload", t.erc20, OutcomeFor(ub, "box"))
      [] t.tag = "Unrecognised" /\ t.unrecognised # Null ->
           free_ptr(FfiByteBuffer_free(h, h[t.unrecognised].data.value,
                                       OutcomeFor(ub, "raw")),
                    "FfiTransactionRequestUnrecognisedPayload", t.unrecognised,
                    OutcomeFor(ub, "box"))
      [] OTHER -> h

free_result(h, r, ub) ==
    LET h1 == IF r.ok = Null THEN h
              ELSE free_ptr(free_transaction_request(h, h[r.ok].data, ub),
                            "FfiTransactionRequest", r.ok, OutcomeFor(ub, "box"))
    IN  FfiByteBuffer_free(h1, r.err, OutcomeFor(ub, "error"))
(***************************************************************************)
(* witffi-core/src/lib.rs: load_wit.                                       *)
(*                                                                         *)
(* A WIT input is a directory or a single file.  What the parser makes of  *)
(* it is given by `pkgs`, the number of worlds of each package it yields   *)
(* in the order the packages enter the Resolve, by `main`, the index of    *)
(* the package the input itself defines, and by `fault`, the step of       *)
(* wit-parser that rejects the input ("none" when none does).  A WorldId   *)
(* is the position of the world in the Resolve's arena.                    *)
(***************************************************************************)
RECURSIVE SumTo(_, _)
SumTo(pkgs, k) == IF k = 0 THEN 0 ELSE SumTo(pkgs, k - 1) + pkgs[k]

\* resolve.worlds.iter().map(|(id, _)| id).collect(): every world of the Resolve.
resolve_worlds(wit) == [i \in 1..SumTo(wit.pkgs, Len(wit.pkgs)) |-> i]

\* resolve.packages[pkg_id].worlds.values().copied().collect(): the worlds of
\* the package push_group returned.
package_worlds(wit) ==
    [i \in 1..wit.pkgs[wit.main] |-> SumTo(wit.pkgs, wit.main - 1) + i]

LoadOk(world) == [ok |-> TRUE, error |-> "none", count |-> <<>>, world |-> <<world>>]

LoadErr(error) == [ok |-> FALSE, error |-> error, count |-> <<>>, world |-> <<>>]

\* Error::WorldCount { count }
WorldCount(count) ==
    [ok |-> FALSE, error |-> "WorldCount", count |-> <<count>>, world |-> <<>>]

\* ensure_one_world accepting any world count but zero.
ensure_some_world(worlds) ==
    IF Len(worlds) >= 1 THEN LoadOk(worlds[1]) ELSE WorldCount(Len(worlds))

\* ensure!(worlds.len() == 1, WorldCountSnafu { count: worlds.len() });
\* Ok((resolve, worlds[0]))
ensure_one_world(worlds) ==
    IF Len(worlds) = 1 THEN LoadOk(worlds[1]) ELSE WorldCount(Len(worlds))

\* load_wit counting the worlds of the input's own package for a directory too.
load_wit_own_package(wit) ==
    IF wit.kind = "dir"
    THEN IF wit.fault # "none"
         THEN LoadErr("LoadDir")
         ELSE ensure_one_world(package_worlds(wit))
    ELSE IF wit.fault = "parse"
         THEN LoadErr("ParseFile")
         ELSE IF wit.fault = "resolve"
         THEN LoadErr("ResolvePackage")
         ELSE ensure_one_world(package_worlds(wit))

load_wit(wit) ==
    IF wit.kind = "dir"
    THEN IF wit.fault # "none"
         THEN LoadErr("LoadDir")
         ELSE ensure_one_world(resolve_worlds(wit))
    ELSE IF wit.fault = "parse"
         THEN LoadErr("ParseFile")
         ELSE IF wit.fault = "resolve"
         THEN LoadErr("ResolvePackage")
         ELSE ensure_one_world(package_worlds(wit))

(***************************************************************************)
(* witffi-cli/src/main.rs and xtask/src/lib.rs: a generation run is a      *)
(* fixed sequence of steps for its driver and target.  The generators are  *)
(* called through the interface the drivers name; whether a generator can  *)
(* translate the world, and what a directory creation or a file write      *)
(* returns, are inputs of the run.                                         *)
(***************************************************************************)
Step(op, what) == [op |-> op, what |-> what]

\* CliPrelude creating the output directory before loading the WIT input.
CliPrelude_dir_first == << Step("create_dir_all", "output"), Step("load_wit", "wit") >>

\* main, from load_wit to the match on lang.
CliPrelude == << Step("load_wit", "wit"), Step("create_dir_all", "output") >>

\* Language::Rust
CliRust ==
    << Step("generate", "RustGenerator::generate"),
       Step("write", "ffi.rs"),
       Step("generate", "RustGenerator::generate_c_header"),
       Step("write", "ffi.h"),
       Step("write", "witffi_types.h") >>

\* Language::Swift
CliSwift ==
    << Step("generate", "RustGenerator::generate_c_header"),
       Step("write", "ffi.h"),
       Step("write", "witffi_types.h"),
       Step("generate", "SwiftGenerator::generate"),
       Step("write", "Bindings.swift"),
       Step("generate", "SwiftGenerator::generate_module_map"),
       Step("write", "module.modulemap") >>

\* Language::Kotlin
CliKotlin ==
    << Step("generate", "KotlinGenerator::generate"),
       Step("write", "Bindings.kt") >>

\* xtask::generate
XtaskGenerate ==
    << Step("load_wit", "wit/eip681.wit"),
       Step("generate", "RustGenerator::generate"),
       Step("write", "examples/eip681-ffi/src/ffi.rs"),
       Step("rustfmt", "examples/eip681-ffi/src/ffi.rs"),
       Step("generate", "RustGenerator::generate_c_header"),
       Step("write", "examples/eip681-ffi/ffi.h"),
       Step("write", "examples/eip681-ffi/witffi_types.h"),
       Step("generate", "KotlinGenerator::generate"),
       Step("create_dir_all", "examples/eip681-kotlin/src"),
       Step("write", "examples/eip681-kotlin/src/Bindings.kt"),
       Step("generate", "SwiftGenerator::generate"),
       Step("create_dir_all", "examples/eip681-swift/Sources/Eip681"),
       Step("write", "examples/eip681-swift/Sources/Eip681/Bindings.swift"),
       Step("create_dir_all", "examples/eip681-swift/Sources/CZcashEip681/include"),
       Step("write", "examples/eip681-swift/Sources/CZcashEip681/include/ffi.h"),
       Step("write", "examples/eip681-swift/Sources/CZcashEip681/include/witffi_types.h"),
       Step("generate", "SwiftGenerator::generate_module_map"),
       Step("write", "examples/eip681-swift/Sources/CZcashEip681/include/module.modulemap") >>

\* examples/eip681-ffi/build.rs: main, its paths taken from the workspace root.
BuildRsMain ==
    << Step("load_wit", "wit/eip681.wit"),
       Step("generate", "RustGenerator::generate"),
       Step("write", "examples/eip681-ffi/src/ffi.rs"),
       Step("rustfmt", "examples/eip681-ffi/src/ffi.rs"),
       Step("generate", "RustGenerator::generate_c_header"),
       Step("write", "examples/eip681-ffi/ffi.h"),
       Step("write", "examples/eip681-ffi/witffi_types.h"),
       Step("generate", "KotlinGenerator::generate"),
       Step("create_dir_all", "examples/eip681-kotlin/src"),
       Step("write", "examples/eip681-kotlin/src/Bindings.kt") >>

\* The steps of a run, in program order.
Plan(driver, lang) ==
    CASE driver = "xtask" -> XtaskGenerate
      [] driver = "build" -> BuildRsMain
      [] driver = "cli" /\ lang = "rust" -> CliPrelude \o CliRust
      [] driver = "cli" /\ lang = "swift" -> CliPrelude \o CliSwift
      [] driver = "cli" /\ lang = "kotlin" -> CliPrelude \o CliKotlin

\* What a generator call returns for a world that `accepted` says it can
\* translate: SwiftGenerator::generate is
\* bail!("Swift generator not yet implemented").
generator_result(what, accepted) ==
    IF what = "SwiftGenerator::generate" THEN FALSE ELSE accepted

\* What std::fs::write(path, text) can do: write all of the text; fail in
\* File::create, leaving no file; or fail in write_all after File::create
\* made the file, leaving it with a part of the text.
WriteOutcomes == { "ok", "failed_at_open", "failed_after_open" }

\* The part of `text` a write that failed after opening the file left in it.
Truncated(text) == [ by |-> "truncated", of |-> << text >> ]

\* The file `text` is written to, after the write.
write_effect(outcome, text) ==
    CASE outcome = "ok" -> << text >>
      [] outcome = "failed_after_open" -> << Truncated(text) >>
      [] outcome = "failed_at_open" -> << >>

\* What rustfmt makes of the text of a file it formats.
Formatted(text) == [ by |-> "rustfmt", of |-> << text >> ]

\* The file rustfmt was started on, after the call: rewritten in place with
\* the whole of rustfmt's output when rustfmt exits with success, and also
\* when it writes its output and then reports an error it met while
\* formatting (a line it could not shorten, trailing blanks it left behind);
\* left with a part of rustfmt's output when rustfmt fails after it has
\* opened the file for writing, the text the driver wrote being gone; as it
\* was when rustfmt is not started or fails before it opens the file.
rustfmt_effect(outcome, text) ==
    CASE outcome \in { "exit_success", "failed_after_rewrite" } -> Formatted(text)
      [] outcome = "failed_after_open" -> Truncated(Formatted(text))
      [] OTHER -> text

\* What Command::status() can return for rustfmt: Err when the program cannot
\* be started; Ok of a failure status, from a run that left the file alone
\* ("exit_failure"), from one that failed while rewriting it
\* ("failed_after_open") or from one that rewrote it in full and then
\* reported an error ("failed_after_rewrite"); Ok of a success status.
RustfmtOutcomes ==
    { "not_started", "exit_failure", "failed_after_open", "failed_after_rewrite",
      "exit_success" }

\* Whether the invocation formatted the file.
rustfmt_ok(outcome) == outcome = "exit_success"

\* Propagates with the outcome of rustfmt returned like any other error.
PropagatesAll(step, ok) == ~ok

\* Propagates with only load_wit's error returned.
PropagatesLoadOnly(step, ok) == ~ok /\ step.op = "load_wit"

\* What a failed step does to the run: `?` returns the error from the
\* function; the exit status of rustfmt is bound to `_` and dropped.
Propagates(step, ok) == ~ok /\ step.op # "rustfmt"

\* How a driver ends on an error: main and xtask::generate return it (exit
\* status 1), build.rs panics in expect (exit status 101).
failure_status(driver) == IF driver = "build" THEN "panicked" ELSE "failed"

\* The run's position after a step: "failed" when the step's error is
\* returned, "ok" past the last step (Ok(())), "running" otherwise.
StatusAfter(driver, plan, i, ok) ==
    IF Propagates(plan[i], ok) THEN failure_status(driver)
    ELSE IF i = Len(plan) THEN "ok"
    ELSE "running"

(***************************************************************************)
(* What the drivers pass to std::fs::write.  The text a generator returns  *)
(* for a world is named by the generator call and the WIT input; the       *)
(* static header is text embedded at compile time.                         *)
(***************************************************************************)
\* pub const WITFFI_TYPES_HEADER: &str = include_str!("../../witffi-types/witffi_types.h");
WITFFI_TYPES_HEADER == [ by |-> "include_str!", of |-> << >> ]

\* The String a generator call returned for the world of `wit`.
Generated(by, wit) == [ by |-> by, of |-> << wit >> ]

\* write_content passing the generated C header to the CLI's witffi_types.h.
write_content_generated_types(what, wit) ==
    CASE what \in { "examples/eip681-ffi/witffi_types.h",
                    "examples/eip681-swift/Sources/CZcashEip681/include/witffi_types.h" } ->
           WITFFI_TYPES_HEADER
      [] what \in { "ffi.rs", "examples/eip681-ffi/src/ffi.rs" } ->
           Generated("RustGenerator::generate", wit)
      [] what \in { "witffi_types.h", "ffi.h", "examples/eip681-ffi/ffi.h",
                    "examples/eip681-swift/Sources/CZcashEip681/include/ffi.h" } ->
           Generated("RustGenerator::generate_c_header", wit)
      [] what \in { "Bindings.kt", "examples/eip681-kotlin/src/Bindings.kt" } ->
           Generated("KotlinGenerator::generate", wit)
      [] what \in { "Bindings.swift",
                    "examples/eip681-swift/Sources/Eip681/Bindings.swift" } ->
           Generated("SwiftGenerator::generate", wit)
      [] what \in { "module.modulemap",
                    "examples/eip681-swift/Sources/CZcashEip681/include/module.modulemap" } ->
           Generated("SwiftGenerator::generate_module_map", wit)

\* The second argument of the write to `what`: rust_code, c_header,
\* WITFFI_TYPES_HEADER, kotlin_code, swift_code or module_map.
write_content(what, wit) ==
    CASE what \in { "witffi_types.h", "examples/eip681-ffi/witffi_types.h",
                    "examples/eip681-swift/Sources/CZcashEip681/include/witffi_types.h" } ->
           WITFFI_TYPES_HEADER
      [] what \in { "ffi.rs", "examples/eip681-ffi/src/ffi.rs" } ->
           Generated("RustGenerator::generate", wit)
      [] what \in { "ffi.h", "examples/eip681-ffi/ffi.h",
                    "examples/eip681-swift/Sources/CZcashEip681/include/ffi.h" } ->
           Generated("RustGenerator::generate_c_header", wit)
      [] what \in { "Bindings.kt", "examples/eip681-kotlin/src/Bindings.kt" } ->
           Generated("KotlinGenerator::generate", wit)
      [] what \in { "Bindings.swift",
                    "examples/eip681-swift/Sources/Eip681/Bindings.swift" } ->
           Generated("SwiftGenerator::generate", wit)
      [] what \in { "module.modulemap",
                    "examples/eip681-swift/Sources/CZcashEip681/include/module.modulemap" } ->
           Generated("SwiftGenerator::generate_module_map", wit)


(***************************************************************************)
(* The native library name a generator is configured with.  An absent      *)
(* Option<String> is <<>>, Some(s) is <<s>>.                               *)
(***************************************************************************)
\* const LIBRARY_NAME: &str = "eip681_ffi";
LIBRARY_NAME == "eip681_ffi"

\* lib_name.unwrap_or_else(|| "witffi".to_string())
kotlin_lib_name(lib_name) == IF lib_name = <<>> THEN "witffi" ELSE lib_name[1]

\* The name generation uses when the configuration holds none: the default
\* the generator derives from the package of its world.
derived_library_name(package) == package \o "_ffi"

\* RustConfig { .., library_name }, KotlinConfig { .., lib_name } and
\* SwiftConfig { .. } as the driver builds them for the generator it calls.
generator_config(j, what) ==
    CASE what \in { "RustGenerator::generate", "RustGenerator::generate_c_header" } ->
           [ generator |-> "RustGenerator",
             library_name |-> IF j.driver \in {"xtask", "build"} THEN << LIBRARY_NAME >>
                              ELSE IF j.lang = "rust" THEN j.lib_name
                              ELSE << >> ]
      [] what = "KotlinGenerator::generate" ->
           [ generator |-> "KotlinGenerator",
             library_name |-> IF j.driver \in {"xtask", "build"} THEN << LIBRARY_NAME >>
                              ELSE << kotlin_lib_name(j.lib_name) >> ]
      [] what \in { "SwiftGenerator::generate", "SwiftGenerator::generate_module_map" } ->
           [ generator |-> "SwiftGenerator", library_name |-> << >> ]

\* The library name the generated code loads.
library_name_used(cfg, package) ==
    IF cfg.library_name = << >> THEN derived_library_name(package)
    ELSE cfg.library_name[1]
(***************************************************************************)
(* witffi-core/src/lib.rs: exported_functions.                             *)
(*                                                                         *)
(* world.exports is an ordered map from WorldKey to WorldItem, modelled as *)
(* the sequence of its entries [key, item].  A key is Name(n) or           *)
(* Interface(id); an item is Interface{id}, Function(func) or Type.  The   *)
(* interfaces of the Resolve are a table from InterfaceId to the           *)
(* interface's optional name and the names of its functions, in order.     *)
(***************************************************************************)
ExportedFunction(interface_name, function_name) ==
    [interface_name |-> interface_name, function_name |-> function_name]

\* format!("interface-{}", id.index()): an arena index counts from 0.
interface_index_name(id) == "interface-" \o ToString(id - 1)

\* The match on key: the key's name, else the interface's own name, else
\* "interface-<index>".
iface_name(interfaces, key) ==
    IF key.kind = "Name" THEN key.name
    ELSE IF interfaces[key.id].name # <<>> THEN interfaces[key.id].name[1]
    ELSE interface_index_name(key.id)

\* One entry per function of the interface, in the interface's order.
interface_entries(interfaces, key, id) ==
    [ k \in 1..Len(interfaces[id].functions) |->
        ExportedFunction(iface_name(interfaces, key), interfaces[id].functions[k]) ]

\* interface_entries labelling the entries with the interface's own name only.
item_entries_own_name(interfaces, export) ==
    CASE export.item.kind = "Interface" ->
           [ k \in 1..Len(interfaces[export.item.id].functions) |->
               ExportedFunction(
                 IF interfaces[export.item.id].name # <<>>
                 THEN interfaces[export.item.id].name[1]
                 ELSE interface_index_name(export.item.id),
                 interfaces[export.item.id].functions[k]) ]
      [] export.item.kind = "Function" ->
           << ExportedFunction("", export.item.name) >>
      [] export.item.kind = "Type" -> <<>>

\* What one (key, item) of world.exports pushes onto result.
item_entries(interfaces, export) ==
    CASE export.item.kind = "Interface" ->
           interface_entries(interfaces, export.key, export.item.id)
      [] export.item.kind = "Function" ->
           << ExportedFunction("", export.item.name) >>
      [] export.item.kind = "Type" -> <<>>

\* for (key, item) in &world.exports { .. }; result
RECURSIVE exported_functions_from(_, _, _)
exported_functions_from(interfaces, exports, n) ==
    IF n = 0 THEN <<>>
    ELSE exported_functions_from(interfaces, exports, n - 1)
           \o item_entries(interfaces, exports[n])

exported_functions(interfaces, exports) ==
    exported_functions_from(interfaces, exports, Len(exports))

(***************************************************************************)
(* witffi-types/src/lib.rs: FfiByteSlice.                                  *)
(***************************************************************************)
\* FfiByteSlice { ptr, len }
FfiByteSlice(ptr, len) == [ ptr |-> ptr, len |-> len ]

\* Reading the bytes [ptr, ptr + len) of slice::from_raw_parts: nothing for
\* len 0 and a non-null pointer, the first len bytes of the block when ptr is
\* the start of a live block holding that many; any other call is undefined
\* behaviour, and `ub` is what it does: the process is killed by a fault, or
\* the read yields some bytes.
from_raw_parts(h, ptr, len, ub) ==
    IF ptr = Null THEN ub
    ELSE IF len = 0 THEN [ fault |-> FALSE, bytes |-> <<>> ]
    ELSE IF ptr \in DOMAIN h /\ h[ptr].state = "live" /\ len <= Len(h[ptr].data)
    THEN [ fault |-> FALSE, bytes |-> SubSeq(h[ptr].data, 1, len) ]
    ELSE ub

\* as_bytes without the test for a null pointer.
as_bytes_unguarded(h, slice, ub) ==
    IF slice.len = 0
    THEN [ bytes |-> <<>>, read |-> FALSE, fault |-> FALSE ]
    ELSE [ bytes |-> from_raw_parts(h, slice.ptr, slice.len, ub).bytes,
           read |-> TRUE,
           fault |-> from_raw_parts(h, slice.ptr, slice.len, ub).fault ]

\* FfiByteSlice::as_bytes: the bytes viewed, whether memory was read, and
\* whether reading it killed the process.
as_bytes(h, slice, ub) ==
    IF slice.ptr = Null \/ slice.len = 0
    THEN [ bytes |-> <<>>, read |-> FALSE, fault |-> FALSE ]
    ELSE [ bytes |-> from_raw_parts(h, slice.ptr, slice.len, ub).bytes,
           read |-> TRUE,
           fault |-> from_raw_parts(h, slice.ptr, slice.len, ub).fault ]

\* FfiByteSlice::as_str_unchecked: the same bytes, taken as UTF-8.
as_str_unchecked(h, slice, ub) == as_bytes(h, slice, ub)

(***************************************************************************)
(* Inputs.                                                                 *)
(***************************************************************************)
Bytes == { 1, 2 }

ByteSeqs(n) == UNION { [1..k -> Bytes] : k \in 0..n }

\* What a read through a pointer that is not valid for it can do: a fault that
\* kills the process (SIGSEGV), or bytes of whatever lies there.
ReadOutcomes(n) ==
    { [ fault |-> TRUE, bytes |-> <<>> ] } \cup
    { [ fault |-> FALSE, bytes |-> b ] : b \in ByteSeqs(n) }

\* The byte vectors handed to FfiByteBuffer: vec![1u8, 2, 3, 4] cut to every
\* length up to n.
VecInputs(n) == { [i \in 1..k |-> i] : k \in 0..n }

\* Texts of an eip681 request (addresses, the schema prefix, the display form,
\* an error message): never empty, of every length up to MaxText.
Texts == VecInputs(MaxText) \ { <<>> }

OptU64 == { <<>>, <<1>> }

U256Values == { 258 }

OptU256 == { <<>> } \cup { <<v>> : v \in U256Values }

NativeRequests ==
    [ kind : {"native"}, schema_prefix : Texts, chain_id : OptU64,
      recipient_address : Texts, value_atomic : OptU256, gas_limit : OptU256,
      gas_price : OptU256, display : Texts ]

Erc20Requests ==
    [ kind : {"erc20"}, chain_id : OptU64, token_contract_address : Texts,
      recipient_address : Texts, value_atomic : U256Values, display : Texts ]

UnrecognisedRequests == [ kind : {"unrecognised"}, raw : Texts ]

ParseErrors == [ kind : {"error"}, text : Texts ]

\* What TransactionRequest::parse can make of an input string.
ParsedInputs ==
    NativeRequests \cup Erc20Requests \cup UnrecognisedRequests \cup ParseErrors

NoInput == [ kind |-> "idle" ]

\* The name of the package that holds the world of the input.
Packages == {"eip681", "demo"}

\* --lib-name: absent or given.
LibNames == { <<>>, <<"mylib">> }

PkgWorlds == UNION { [1..k -> 0..MaxWorlds] : k \in 1..MaxPkgs }

\* What wit-parser can make of the path given to load_wit.
WitInputs ==
    { w \in [kind : {"dir", "file"}, fault : {"none", "parse", "resolve"},
             pkgs : PkgWorlds, main : 1..MaxPkgs, package : Packages] :
        w.main <= Len(w.pkgs) }

\* The runs: the CLI for one of its three languages, xtask::generate, or the
\* build script of the eip681 example.
Jobs ==
    { [driver |-> "cli", lang |-> l, wit |-> w, lib_name |-> n] :
        l \in {"rust", "swift", "kotlin"}, w \in WitInputs, n \in LibNames } \cup
    { [driver |-> d, lang |-> "all", wit |-> w, lib_name |-> <<LIBRARY_NAME>>] :
        d \in {"xtask", "build"}, w \in WitInputs }

NoJob == [ driver |-> "idle" ]

(***************************************************************************)
(* State.                                                                  *)
(***************************************************************************)
VARIABLES
    scope,      \* names: the WIT identifiers of one scope, a sequence
    last_op,    \* names: the mapping operation applied last, "none" at first
    c_prefix,   \* names: the C prefix passed to it, <<>> when it takes none
    mapped,     \* names: its result for each identifier of scope
    heap,       \* memory: every allocation made so far
    bufs,       \* buffers: the FfiByteBuffers a caller holds or has freed
    parsed,     \* eip681: what the parser makes of the caller's input
    ret,        \* eip681: <<>> before the call, then <<the returned value>>
    released,   \* eip681: the free function has been called on ret
    job,        \* generation: the driver, its target and its WIT input
    status,     \* generation: "running", then "ok", "failed" or "panicked"
    trace,      \* generation: the steps executed, each with its outcome
    loaded,     \* generation: <<>>, then <<what load_wit returned>>
    written,    \* generation: the files the run has created, in order
    contents,   \* generation: what each of them holds
    config,     \* generation: <<>>, then <<the library name the generator called last was configured with>>
    exports,    \* exports: the exports of the world, in order
    exported,   \* exports: <<>>, then <<what exported_functions returned>>
    view,       \* slices: <<>>, then <<the last read of an FfiByteSlice>>
    ptrs        \* pointers: the results of option_to_ptr a caller holds

name_vars == <<scope, last_op, c_prefix, mapped>>

parse_vars == <<parsed, ret, released>>

gen_vars == <<job, status, trace, loaded, written, contents, config>>

export_vars == <<exports, exported>>

type_vars == <<view, ptrs>>

vars == <<scope, last_op, c_prefix, mapped, heap, bufs, parsed, ret, released,
          job, status, trace, loaded, written, contents, config, exports,
          exported,
          view, ptrs>>

NamesIdle == scope = <<>> /\ last_op = "none" /\ c_prefix = <<>> /\ mapped = <<>>

BuffersIdle == bufs = <<>>

ParseIdle == parsed = NoInput /\ ret = <<>> /\ released = FALSE

GenIdle ==
    /\ job = NoJob
    /\ status = "idle"
    /\ trace = <<>>
    /\ loaded = <<>>
    /\ written = <<>>
    /\ contents = <<>>
    /\ config = <<>>

ExportsIdle == exports = <<>> /\ exported = <<>>

TypesIdle == view = <<>> /\ ptrs = <<>>

(***************************************************************************)
(* The name mapper applied to every identifier of a scope.                 *)
(***************************************************************************)
NamesInit ==
    /\ scope \in Scopes
    /\ last_op = "none"
    /\ c_prefix = <<>>
    /\ mapped = <<>>
    /\ heap = <<>>
    /\ BuffersIdle
    /\ ParseIdle
    /\ GenIdle
    /\ ExportsIdle
    /\ TypesIdle

ApplyOp(op, prefix) ==
    /\ last_op = "none"
    /\ last_op' = op
    /\ c_prefix' = prefix
    /\ mapped' = [i \in 1..Len(scope) |-> NameTable[op][prefix][scope[i]]]
    /\ UNCHANGED scope
    /\ UNCHANGED <<heap, bufs, parse_vars, gen_vars, export_vars, type_vars>>

MapPlain == \E op \in PlainOps : ApplyOp(op, <<>>)

MapWithPrefix == \E op \in PrefixOps : \E p \in Prefixes : ApplyOp(op, p)

NamesNext == MapPlain \/ MapWithPrefix

SpecNames == NamesInit /\ [][NamesNext]_vars

(***************************************************************************)
(* A caller of witffi-types making and freeing owned buffers.  Each entry  *)
(* of bufs keeps, beside the buffer, the block its Vec owned (Null when    *)
(* the Vec had allocated nothing) and whether free has been called on it.  *)
(***************************************************************************)
BuffersInit ==
    /\ heap = <<>>
    /\ bufs = <<>>
    /\ NamesIdle
    /\ ParseIdle
    /\ GenIdle
    /\ ExportsIdle
    /\ TypesIdle

\* A buffer a caller holds: the buffer, the block of the Vec it was made from
\* (Null when the Vec had none), how it was made and from which bytes.
Held(buf, owned, via, data) ==
    [buf |-> buf, owned |-> owned, via |-> via, data |-> data, freed |-> FALSE]

\* let v: Vec<u8> = ...; FfiByteBuffer::from_vec(v)
BufferFromVec ==
    /\ ~Killed(heap)
    /\ Len(bufs) < MaxBufs
    /\ \E data \in VecInputs(MaxLen) : \E cap \in Len(data)..MaxCap :
         LET vec == VecWithCapacity(heap, data, cap, "vec")
         IN  /\ heap' = vec.h
             /\ bufs' = Append(bufs, Held(FfiByteBuffer_from_vec(vec.v),
                                          IF cap = 0 THEN Null ELSE vec.v.ptr,
                                          "from_vec", data))
    /\ UNCHANGED <<name_vars, parse_vars, gen_vars, export_vars, type_vars>>

\* let s: String = ...; FfiByteBuffer::from_string(s)
BufferFromString ==
    /\ ~Killed(heap)
    /\ Len(bufs) < MaxBufs
    /\ \E text \in VecInputs(MaxLen) : \E cap \in Len(text)..MaxCap :
         LET s == VecWithCapacity(heap, text, cap, "string")
         IN  /\ heap' = s.h
             /\ bufs' = Append(bufs, Held(FfiByteBuffer_from_string(s.v),
                                          IF cap = 0 THEN Null ELSE s.v.ptr,
                                          "from_string", text))
    /\ UNCHANGED <<name_vars, parse_vars, gen_vars, export_vars, type_vars>>

\* FfiByteBuffer::empty()
BufferEmpty ==
    /\ ~Killed(heap)
    /\ Len(bufs) < MaxBufs
    /\ bufs' = Append(bufs, Held(FfiByteBuffer_empty, Null, "empty", <<>>))
    /\ UNCHANGED <<name_vars, heap, parse_vars, gen_vars, export_vars, type_vars>>

\* unsafe { buf.free() }, once per buffer: free takes the buffer by value.
BufferFree ==
    /\ ~Killed(heap)
    /\ \E i \in DOMAIN bufs : \E ub \in UBOutcomes :
         /\ ~bufs[i].freed
         /\ heap' = FfiByteBuffer_free(heap, bufs[i].buf, ub)
         /\ bufs' = [bufs EXCEPT ![i].freed = TRUE]
    /\ UNCHANGED <<name_vars, parse_vars, gen_vars, export_vars, type_vars>>

BuffersNext == BufferFromVec \/ BufferFromString \/ BufferEmpty \/ BufferFree

SpecBuffers == BuffersInit /\ [][BuffersNext]_vars

(***************************************************************************)
(* A caller of the eip681 bridge: one parse, through the trait method (as  *)
(* the crate's tests call it) or through the exported C function, and the  *)
(* free function on the exported function's return.                        *)
(***************************************************************************)
\* The input strings a caller passes: two texts of different lengths.
InputTexts == { << 1, 2 >>, << 2 >> }

\* let input = "ethereum:0x..."; the caller's own bytes, borrowed by the call.
InputBlock(text) ==
    [ kind |-> "bytes", size |-> Len(text), data |-> text, what |-> "input",
      state |-> "live" ]

\* Where the caller's input is.
InputPtr(h) == CHOOSE a \in DOMAIN h : h[a].what = "input"

ParseInit ==
    /\ parsed \in ParsedInputs
    /\ ret = <<>>
    /\ released = FALSE
    /\ \E text \in InputTexts : heap = << InputBlock(text) >>
    /\ NamesIdle
    /\ BuffersIdle
    /\ GenIdle
    /\ ExportsIdle
    /\ TypesIdle

\* The Strings a conversion of `p` makes, by the field each is made for.
StringsOf(p) ==
    CASE p.kind = "native" -> { "schema_prefix", "recipient_address", "display" }
      [] p.kind = "erc20" ->
           { "token_contract_address", "recipient_address", "display" }
      [] p.kind = "unrecognised" -> { "raw" }
      [] p.kind = "error" -> { "error" }

\* What the allocation of each of them holds beyond its text.
Slacks(p) == [ StringsOf(p) -> 0..MaxSlack ]

\* <Impl as Eip681>::parser_parse(input)
CallParserParse ==
    /\ ret = <<>>
    /\ \E slack \in Slacks(parsed) :
         LET r == parser_parse(heap, parsed, slack)
         IN  /\ heap' = r.h
             /\ ret' = << [level |-> "trait", v |-> r.v] >>
    /\ UNCHANGED <<name_vars, bufs, parsed, released, gen_vars, export_vars, type_vars>>

\* The exported C function: the input arrives as an FfiByteSlice over the
\* caller's bytes and is read with as_str_unchecked; the slice is valid for
\* its length, so what an invalid read would do never shows.
CallExportedParse ==
    /\ ret = <<>>
    /\ \E slack \in Slacks(parsed) : \E ub \in ReadOutcomes(0) :
         LET input == FfiByteSlice(InputPtr(heap), Len(heap[InputPtr(heap)].data))
             r == exported_parser_parse(heap, parsed, slack)
         IN  /\ view' = << [ op |-> "as_str_unchecked", slice |-> input,
                             got |-> as_str_unchecked(heap, input, ub) ] >>
             /\ heap' = r.h
             /\ ret' = << [level |-> "wire", v |-> r.v] >>
    /\ UNCHANGED <<name_vars, bufs, parsed, released, gen_vars, export_vars, ptrs>>

\* The generated free function, called once on the returned value.
CallFreeResult ==
    /\ ~Killed(heap)
    /\ ret # <<>>
    /\ ret[1].level = "wire"
    /\ ~released
    /\ \E ub \in [ StringsOf(parsed) -> UBOutcomes ] :
         heap' = free_result(heap, ret[1].v, ub)
    /\ released' = TRUE
    /\ UNCHANGED <<name_vars, bufs, parsed, ret, gen_vars, export_vars, type_vars>>

ParseNext == CallParserParse \/ CallExportedParse \/ CallFreeResult

SpecParse == ParseInit /\ [][ParseNext]_vars

(***************************************************************************)
(* A generation run: the CLI's main or xtask::generate, one step at a      *)
(* time.  The step at hand is the one after the last of trace.             *)
(***************************************************************************)
GenInit ==
    /\ job \in Jobs
    /\ status = "running"
    /\ trace = <<>>
    /\ loaded = <<>>
    /\ written = <<>>
    /\ contents = <<>>
    /\ config = <<>>
    /\ heap = <<>>
    /\ NamesIdle
    /\ BuffersIdle
    /\ ParseIdle
    /\ ExportsIdle
    /\ TypesIdle

CurrentPlan == Plan(job.driver, job.lang)

\* The step at hand, in a run that has neither failed nor finished.
AtStep(op) ==
    /\ status = "running"
    /\ Len(trace) < Len(CurrentPlan)
    /\ CurrentPlan[Len(trace) + 1].op = op

\* The step at hand returns: its outcome is recorded, and the run goes on,
\* finishes or fails.
Returns(ok) ==
    /\ trace' = Append(trace, [step |-> CurrentPlan[Len(trace) + 1], ok |-> ok])
    /\ status' = StatusAfter(job.driver, CurrentPlan, Len(trace) + 1, ok)

\* witffi_core::load_wit(&wit)?
StepLoadWit ==
    /\ AtStep("load_wit")
    /\ loaded' = << load_wit(job.wit) >>
    /\ Returns(load_wit(job.wit).ok)
    /\ UNCHANGED <<name_vars, heap, bufs, parse_vars, job, written, contents, config,
                   export_vars, type_vars>>

\* std::fs::create_dir_all(..)?, directly or in ensure_parent_dir
StepCreateDir ==
    /\ AtStep("create_dir_all")
    /\ \E ok \in BOOLEAN : Returns(ok)
    /\ UNCHANGED <<name_vars, heap, bufs, parse_vars, job, loaded, written,
                   contents, config, export_vars, type_vars>>

\* generator.generate()?, generate_c_header()?, generate_module_map()?
StepGenerate ==
    /\ AtStep("generate")
    /\ \E accepted \in BOOLEAN :
         Returns(generator_result(CurrentPlan[Len(trace) + 1].what, accepted))
    /\ config' = << generator_config(job, CurrentPlan[Len(trace) + 1].what) >>
    /\ UNCHANGED <<name_vars, heap, bufs, parse_vars, job, loaded, written,
                   contents, export_vars, type_vars>>

\* std::fs::write(&path, ..)?, directly or in write_file
StepWrite ==
    /\ AtStep("write")
    /\ \E outcome \in WriteOutcomes :
         /\ trace' = Append(trace, [step |-> CurrentPlan[Len(trace) + 1],
                                    ok |-> outcome = "ok",
                                    outcome |-> outcome])
         /\ status' = StatusAfter(job.driver, CurrentPlan, Len(trace) + 1,
                                  outcome = "ok")
         /\ written' = IF outcome = "failed_at_open" THEN written
                       ELSE Append(written, CurrentPlan[Len(trace) + 1].what)
         /\ contents' = contents \o
                          write_effect(outcome,
                            write_content(CurrentPlan[Len(trace) + 1].what, job.wit))
    /\ UNCHANGED <<name_vars, heap, bufs, parse_vars, job, loaded, config,
                   export_vars, type_vars>>

\* let _ = Command::new("rustfmt")...status();
StepRustfmt ==
    /\ AtStep("rustfmt")
    /\ \E outcome \in RustfmtOutcomes :
         /\ trace' = Append(trace, [step |-> CurrentPlan[Len(trace) + 1],
                                    ok |-> rustfmt_ok(outcome),
                                    outcome |-> outcome])
         /\ status' = StatusAfter(job.driver, CurrentPlan, Len(trace) + 1,
                                  rustfmt_ok(outcome))
         /\ contents' = [ i \in DOMAIN contents |->
                            IF written[i] = CurrentPlan[Len(trace) + 1].what
                            THEN rustfmt_effect(outcome, contents[i])
                            ELSE contents[i] ]
    /\ UNCHANGED <<name_vars, heap, bufs, parse_vars, job, loaded, written,
                   config, export_vars, type_vars>>

GenNext == StepLoadWit \/ StepCreateDir \/ StepGenerate \/ StepWrite \/ StepRustfmt

SpecGen == GenInit /\ [][GenNext]_vars

(***************************************************************************)
(* SpecExports: exported_functions over the exports of a world.            *)
(***************************************************************************)
\* resolve.interfaces: each interface's optional name and its functions, in
\* the interface's order.
Interfaces ==
    << [ name |-> << "parser" >>, functions |-> << "parse" >> ],
       [ name |-> << >>,          functions |-> << "f", "g" >> ],
       [ name |-> << "types" >>,  functions |-> << >> ] >>

\* WorldKey::Name(n) and WorldKey::Interface(id)
NameKey(n) == [ kind |-> "Name", name |-> n, id |-> 0 ]

InterfaceKey(id) == [ kind |-> "Interface", name |-> "", id |-> id ]

\* WorldItem::Interface { id, .. }, WorldItem::Function(func), WorldItem::Type
InterfaceItem(id) == [ kind |-> "Interface", name |-> "", id |-> id ]

FunctionItem(n) == [ kind |-> "Function", name |-> n, id |-> 0 ]

TypeItem == [ kind |-> "Type", name |-> "", id |-> 0 ]

Export(key, item) == [ key |-> key, item |-> item ]

\* The entries a world's export map can hold: an interface exported by
\* reference or inline under a name, a root-level function under its own
\* name, a type under its name.
ExportEntries ==
    { Export(InterfaceKey(id), InterfaceItem(id)) : id \in DOMAIN Interfaces }
      \cup { Export(NameKey("api"), InterfaceItem(id)) : id \in DOMAIN Interfaces }
      \cup { Export(NameKey(f), FunctionItem(f)) : f \in { "run", "stop" } }
      \cup { Export(NameKey("t"), TypeItem) }

\* The export maps of at most MaxExports entries: the keys of a map are distinct.
Worlds ==
    UNION { { w \in [1..n -> ExportEntries] :
                \A i, j \in 1..n : i # j => w[i].key # w[j].key } :
            n \in 0..MaxExports }

ExportsInit ==
    /\ exports \in Worlds
    /\ exported = <<>>
    /\ heap = <<>>
    /\ NamesIdle
    /\ BuffersIdle
    /\ ParseIdle
    /\ GenIdle
    /\ TypesIdle

\* exported_functions(&resolve, world_id)
CallExportedFunctions ==
    /\ exported = <<>>
    /\ exported' = << exported_functions(Interfaces, exports) >>
    /\ UNCHANGED <<name_vars, heap, bufs, parse_vars, gen_vars, exports, type_vars>>

ExportsNext == CallExportedFunctions

SpecExports == ExportsInit /\ [][ExportsNext]_vars

(***************************************************************************)
(* SpecSlices: a caller reads borrowed slices over one block of its own.   *)
(***************************************************************************)
\* The slices a caller may pass: a null pointer, a dangling one or the start
\* of its block, with any length; as_bytes is unsafe, and nothing stops a
\* caller from passing a length the pointer is not valid for.
SlicesOver(h) ==
    { FfiByteSlice(ptr, len) : ptr \in { Null, Dangling, 1 }, len \in 0..MaxLen }

\* let data = b"hello";
CallerBlock(data) ==
    [ kind |-> "bytes", size |-> Len(data), data |-> data, what |-> "caller",
      state |-> "live" ]

SlicesInit ==
    /\ \E data \in ByteSeqs(MaxLen) : heap = << CallerBlock(data) >>
    /\ view = <<>>
    /\ ptrs = <<>>
    /\ NamesIdle
    /\ BuffersIdle
    /\ ParseIdle
    /\ GenIdle
    /\ ExportsIdle

\* The last read killed the process: the caller makes no further call.
Faulted == view # <<>> /\ view[1].got.fault

\* slice.as_bytes()
AsBytes ==
    \E slice \in SlicesOver(heap) : \E ub \in ReadOutcomes(MaxLen) :
      /\ ~Faulted
      /\ view' = << [ op |-> "as_bytes", slice |-> slice,
                      got |-> as_bytes(heap, slice, ub) ] >>
      /\ UNCHANGED <<name_vars, heap, bufs, parse_vars, gen_vars, export_vars, ptrs>>

\* slice.as_str_unchecked()
AsStrUnchecked ==
    \E slice \in SlicesOver(heap) : \E ub \in ReadOutcomes(MaxLen) :
      /\ ~Faulted
      /\ view' = << [ op |-> "as_str_unchecked", slice |-> slice,
                      got |-> as_str_unchecked(heap, slice, ub) ] >>
      /\ UNCHANGED <<name_vars, heap, bufs, parse_vars, gen_vars, export_vars, ptrs>>

SlicesNext == AsBytes \/ AsStrUnchecked

SpecSlices == SlicesInit /\ [][SlicesNext]_vars

(***************************************************************************)
(* SpecPointers: a caller makes pointers with option_to_ptr and frees each *)
(* of them once with free_ptr.                                             *)
(***************************************************************************)
\* The pointee types the caller instantiates option_to_ptr and free_ptr at:
\* a plain value, a zero-sized one, and one that owns heap memory.
PointeeTypes == { "u64", "()", "String" }

\* let s = String::from("h"), made before any pointer: its buffer is the
\* first block of the heap.
CallerString(h) == [ ptr |-> 1, len |-> Len(h[1].data), cap |-> h[1].size ]

\* The String has been moved into an Option given to option_to_ptr.
StringMoved == \E i \in DOMAIN ptrs : ptrs[i].T = "String" /\ ptrs[i].v # << >>

\* The Options of type Option<T> a caller converts: None, and Some(1),
\* Some(42), Some(()) or Some(s), the String being moved at most once.
OptValues(T) ==
    CASE T = "u64" -> { << >>, << 1 >>, << 42 >> }
      [] T = "()" -> { << >>, << Unit >> }
      [] T = "String" -> IF StringMoved THEN { << >> }
                         ELSE { << >>, << CallerString(heap) >> }

\* A pointer a caller holds, its type and the Option it was made from.
HeldPtr(T, ptr, v) == [ T |-> T, ptr |-> ptr, v |-> v, freed |-> FALSE ]

PointersInit ==
    /\ \E cap \in 1..2 : heap = VecWithCapacity(<<>>, << 104 >>, cap, "caller").h
    /\ ptrs = <<>>
    /\ view = <<>>
    /\ NamesIdle
    /\ BuffersIdle
    /\ ParseIdle
    /\ GenIdle
    /\ ExportsIdle

\* let ptr = option_to_ptr(v);
OptionToPtr ==
    /\ ~Killed(heap)
    /\ Len(ptrs) < MaxPtrs
    /\ \E T \in PointeeTypes : \E v \in OptValues(T) :
         LET r == option_to_ptr(heap, T, v, "caller")
         IN  /\ heap' = r.h
             /\ ptrs' = Append(ptrs, HeldPtr(T, r.ptr, v))
    /\ UNCHANGED <<name_vars, bufs, parse_vars, gen_vars, export_vars, view>>

\* unsafe { free_ptr(ptr) }, once per pointer.
FreePtr ==
    /\ ~Killed(heap)
    /\ \E i \in DOMAIN ptrs : \E ub \in UBOutcomes :
         /\ ~ptrs[i].freed
         /\ heap' = free_ptr(heap, ptrs[i].T, ptrs[i].ptr, ub)
         /\ ptrs' = [ptrs EXCEPT ![i].freed = TRUE]
    /\ UNCHANGED <<name_vars, bufs, parse_vars, gen_vars, export_vars, view>>

PointersNext == OptionToPtr \/ FreePtr

SpecPointers == PointersInit /\ [][PointersNext]_vars

(***************************************************************************)
(* Properties.                                                             *)
(***************************************************************************)
Range(s) == { s[i] : i \in DOMAIN s }

\* The worlds load_wit counts for an input that wit-parser accepts.
WorldsFound(wit) ==
    IF wit.kind = "dir" THEN resolve_worlds(wit) ELSE package_worlds(wit)

\* C1: load_wit returns Ok, with the world, only when exactly one world is
\* found; when zero or more than one is found it returns WorldCount with the
\* number of worlds found as its count and returns no world, for a directory
\* and for a file alike; an input wit-parser rejects yields no world either.
C1_LoadWitWorldCount ==
    loaded # <<>> =>
        /\ job.wit.fault # "none" => ~loaded[1].ok /\ loaded[1].world = <<>>
        /\ job.wit.fault = "none" =>
             /\ loaded[1].ok <=> Len(WorldsFound(job.wit)) = 1
             /\ loaded[1].ok => loaded[1].world = << WorldsFound(job.wit)[1] >>
             /\ ~loaded[1].ok =>
                  loaded[1] = [ok |-> FALSE, error |-> "WorldCount",
                               count |-> << Len(WorldsFound(job.wit)) >>,
                               world |-> <<>>]

\* A directory whose packages define two worlds has been rejected with count 2.
C1_Witness ==
    /\ loaded # <<>>
    /\ job.wit.kind = "dir"
    /\ job.wit.fault = "none"
    /\ loaded[1].error = "WorldCount"
    /\ loaded[1].count = <<2>>

\* C2: for every owned buffer free is the exact reverse of its creation: once
\* free has been called on a buffer made by from_vec or from_string, of any
\* length and capacity, the block its Vec owned is released (and nothing else
\* has happened to it); free on an empty buffer changes nothing.
C2_FreeReversesCreation ==
    \A i \in DOMAIN bufs :
        bufs[i].freed =>
            bufs[i].owned = Null \/ heap[bufs[i].owned].state = "freed"

\* The request a successful parse returned, at either level of the call.
ParseSucceeded ==
    /\ ret # <<>>
    /\ IF ret[1].level = "trait" THEN ret[1].v.ok ELSE ret[1].v.tag = "ok"

ReturnedRequest ==
    IF ret[1].level = "trait" THEN ret[1].v.value ELSE heap[ret[1].v.ok].data

\* C3: in every value tx_request_to_ffi returns, exactly one of the pointers
\* native, erc20 and unrecognised is non-null, the one the tag names, and the
\* tag is the case of the request converted.
C3_ExactlyOnePayloadPointer ==
    ParseSucceeded =>
        /\ ReturnedRequest.tag =
             CASE parsed.kind = "native" -> "Native"
               [] parsed.kind = "erc20" -> "Erc20"
               [] parsed.kind = "unrecognised" -> "Unrecognised"
        /\ ReturnedRequest.native # Null <=> ReturnedRequest.tag = "Native"
        /\ ReturnedRequest.erc20 # Null <=> ReturnedRequest.tag = "Erc20"
        /\ ReturnedRequest.unrecognised # Null
             <=> ReturnedRequest.tag = "Unrecognised"

\* An ERC-20 request has been converted: its pointer alone is set.
C3_Witness ==
    /\ ParseSucceeded
    /\ parsed.kind = "erc20"
    /\ ReturnedRequest.tag = "Erc20"
    /\ ReturnedRequest.erc20 # Null
    /\ ReturnedRequest.native = Null

\* The native-transfer scenario: recipient address and value present; chain id,
\* gas limit and gas price absent.
NativeScenario ==
    /\ parsed.kind = "native"
    /\ parsed.chain_id = <<>>
    /\ parsed.value_atomic # <<>>
    /\ parsed.gas_limit = <<>>
    /\ parsed.gas_price = <<>>

\* The allocations the call made: every block but the caller's input.
Owned(h) == { a \in DOMAIN h : h[a].what # "input" }

\* C4: in the native-transfer scenario exactly seven owned allocations exist
\* after the parse call, all live, and one call of the free function on the
\* returned value releases all seven.
C4_SevenAllocationsAllReleased ==
    NativeScenario /\ ret # <<>> /\ ret[1].level = "wire" =>
        /\ Cardinality(Owned(heap)) = 7
        /\ ~released => \A a \in Owned(heap) : heap[a].state = "live"
        /\ released => \A a \in Owned(heap) : heap[a].state = "freed"

\* The reserved words of the language an operation maps into.
Reserved(op) ==
    CASE op \in {"to_rust_type", "to_rust_ident"} -> RustKeywords
      [] op \in {"to_swift_type", "to_swift_ident"} -> SwiftKeywords
      [] op \in {"to_kotlin_type", "to_kotlin_ident"} -> KotlinKeywords
      [] op \in {"to_go_type", "to_go_func", "to_go_field", "to_go_ident"}
           -> GoKeywords
      [] OTHER -> {}

\* C5: for every WIT identifier and every target language, the identifier a
\* type-name or value-identifier operation returns is never a reserved word
\* of that language.
C5_NeverReservedWord ==
    \A i \in DOMAIN mapped : mapped[i] \notin Reserved(last_op)

Suffixed(name, keywords) == IF name \in keywords THEN name \o <<"_">> ELSE name

Quoted(name, keywords) ==
    IF name \in keywords THEN <<Backtick>> \o name \o <<Backtick>> ELSE name

\* C6: a case-converted name that is a keyword of the target gets one trailing
\* underscore from to_rust_ident and the Go operations and is wrapped in
\* backticks by to_swift_ident and to_kotlin_ident; any other name is returned
\* as converted.  `type` gives `type_` in Rust, `class` the quoted `class` in
\* Swift and `when` the quoted `when` in Kotlin.
C6_KeywordEscaping ==
    \A i \in DOMAIN mapped :
        /\ last_op = "to_rust_ident" =>
             mapped[i] = Suffixed(to_snake_case(scope[i]), RustKeywords)
        /\ last_op \in {"to_go_type", "to_go_func", "to_go_field"} =>
             mapped[i] = Suffixed(to_pascal_case(scope[i]), GoKeywords)
        /\ last_op = "to_go_ident" =>
             mapped[i] = Suffixed(to_lower_camel_case(scope[i]), GoKeywords)
        /\ last_op = "to_swift_ident" =>
             mapped[i] = Quoted(to_lower_camel_case(scope[i]), SwiftKeywords)
        /\ last_op = "to_kotlin_ident" =>
             mapped[i] = Quoted(to_lower_camel_case(scope[i]), KotlinKeywords)
        /\ last_op = "to_rust_ident" /\ scope[i] = <<"t","y","p","e">> =>
             mapped[i] = <<"t","y","p","e","_">>
        /\ last_op = "to_swift_ident" /\ scope[i] = <<"c","l","a","s","s">> =>
             mapped[i] = <<Backtick,"c","l","a","s","s",Backtick>>
        /\ last_op = "to_kotlin_ident" /\ scope[i] = <<"w","h","e","n">> =>
             mapped[i] = <<Backtick,"w","h","e","n",Backtick>>

\* to_kotlin_ident has quoted `when`.
C6_Witness ==
    /\ last_op = "to_kotlin_ident"
    /\ scope = << <<"w","h","e","n">> >>
    /\ mapped = << <<Backtick,"w","h","e","n",Backtick>> >>

\* C7 (as stated): within one scope and one target, two distinct WIT
\* identifiers never map to the same identifier.
C7_Injective ==
    last_op # "none" /\ Len(scope) = 2 => mapped[1] # mapped[2]

\* C7 (amended): within one scope and one target, two WIT identifiers map to
\* the same identifier exactly when they differ in letter case only.
C7_CollideByCaseOnly ==
    last_op # "none" /\ Len(scope) = 2 =>
        (mapped[1] = mapped[2] <=> lowercase(scope[1]) = lowercase(scope[2]))

\* Two identifiers of a scope have been mapped to the same identifier.
C7_Witness ==
    /\ last_op = "to_rust_ident"
    /\ Len(scope) = 2
    /\ scope[1] # scope[2]
    /\ mapped[1] = mapped[2]

\* C8: marshalling the u64 chain id of a request, present or absent, performs
\* no heap allocation: it is projected inline.
C8_ChainIdInline ==
    \A a \in DOMAIN heap : heap[a].what # "chain_id"

\* The files of each target, as the claim lists them.
ClaimedFiles(lang) ==
    CASE lang = "rust" -> {"ffi.rs", "ffi.h", "witffi_types.h"}
      [] lang = "swift" -> {"ffi.rs", "ffi.h", "witffi_types.h",
                            "Bindings.swift", "module.modulemap"}
      [] lang = "kotlin" -> {"Bindings.kt"}

\* No step of the run has failed but, possibly, the Swift generator itself.
EnvironmentOk ==
    \A i \in DOMAIN trace :
        trace[i].ok \/ trace[i].step.what = "SwiftGenerator::generate"

\* C9: a CLI run that nothing outside the generator fails ends in success
\* having written exactly the files of its target: ffi.rs, ffi.h and
\* witffi_types.h for Rust; those and Bindings.swift and module.modulemap for
\* Swift; Bindings.kt for Kotlin.
C9_FilesPerTarget ==
    job.driver = "cli" /\ status \in {"ok", "failed"} /\ EnvironmentOk =>
        status = "ok" /\ Range(written) = ClaimedFiles(job.lang)

\* The steps whose failure the claim names.
AbortingOps == {"load_wit", "create_dir_all", "generate", "write"}

\* The files the write steps executed so far have created: a write that
\* fails after opening its file leaves the file behind.
CreatedBy(steps) ==
    SelectSeq([i \in DOMAIN trace |->
                 IF /\ i \in steps
                    /\ trace[i].step.op = "write"
                    /\ trace[i].outcome # "failed_at_open"
                 THEN trace[i].step.what ELSE ""],
              LAMBDA f : f # "")

\* C10: in the CLI run and in xtask::generate, a failing WIT load, directory
\* creation, generator call or file write is the last step executed; the run
\* then has failed, and no file of a later step exists.
C10_FirstFailureAborts ==
    job.driver \in {"cli", "xtask"} =>
        /\ \A i \in DOMAIN trace :
             ~trace[i].ok /\ trace[i].step.op \in AbortingOps =>
                i = Len(trace) /\ status = "failed"
        /\ status = "ok" =>
             \A i \in DOMAIN trace : trace[i].ok \/ trace[i].step.op \notin AbortingOps
        /\ written = CreatedBy(DOMAIN trace)

\* A file write has failed with steps of the plan still ahead.
C10_Witness ==
    /\ job.driver \in {"cli", "xtask"}
    /\ status = "failed"
    /\ trace # <<>>
    /\ trace[Len(trace)].step.op = "write"
    /\ ~trace[Len(trace)].ok
    /\ Len(trace) < Len(CurrentPlan)
    /\ written # <<>>


(***************************************************************************)
(* C11: exported_functions returns, in world-export order, one entry per   *)
(* function of each exported interface (in the interface's function order, *)
(* labelled with the export key's name, else the interface's own name,     *)
(* else "interface-<index>"), one entry with an empty interface name per   *)
(* root-level function, and nothing for a type export.                     *)
(***************************************************************************)
\* The number of entries the claim gives one export.
EntriesOf(export) ==
    CASE export.item.kind = "Interface" -> Len(Interfaces[export.item.id].functions)
      [] export.item.kind = "Function" -> 1
      [] export.item.kind = "Type" -> 0

RECURSIVE EntriesBefore(_, _)
EntriesBefore(w, i) ==
    IF i = 1 THEN 0 ELSE EntriesBefore(w, i - 1) + EntriesOf(w[i - 1])

\* The label the claim gives the entries of an exported interface.
LabelOf(export) ==
    IF export.key.kind = "Name" THEN export.key.name
    ELSE IF Interfaces[export.item.id].name # <<>>
    THEN Interfaces[export.item.id].name[1]
    ELSE "interface-" \o ToString(export.item.id - 1)

C11_ExportedFunctionsExact ==
    exported # <<>> =>
      /\ Len(exported[1]) = EntriesBefore(exports, Len(exports) + 1)
      /\ \A i \in 1..Len(exports) :
           \A k \in 1..EntriesOf(exports[i]) :
             LET entry == exported[1][EntriesBefore(exports, i) + k] IN
             IF exports[i].item.kind = "Interface"
             THEN /\ entry.interface_name = LabelOf(exports[i])
                  /\ entry.function_name = Interfaces[exports[i].item.id].functions[k]
             ELSE /\ entry.interface_name = ""
                  /\ entry.function_name = exports[i].item.name

C11_Witness ==
    /\ exports = << Export(InterfaceKey(2), InterfaceItem(2)),
                    Export(NameKey("run"), FunctionItem("run")) >>
    /\ exported = << << ExportedFunction("interface-1", "f"),
                        ExportedFunction("interface-1", "g"),
                        ExportedFunction("", "run") >> >>

(***************************************************************************)
(* C12: as_bytes (and as_str_unchecked over it) returns the empty sequence *)
(* without reading memory for a slice of length 0, whatever its pointer,   *)
(* and for a null pointer, whatever its length; otherwise it returns       *)
(* exactly the len bytes starting at ptr.                                  *)
(***************************************************************************)
\* ptr is valid for len bytes: the safety contract of as_bytes.
ValidFor(h, slice) ==
    /\ slice.ptr \in DOMAIN h
    /\ h[slice.ptr].state = "live"
    /\ slice.len <= Len(h[slice.ptr].data)

C12_AsBytesToleratesEmpty ==
    view # <<>> =>
      LET slice == view[1].slice
          got == view[1].got IN
      /\ slice.len = 0 \/ slice.ptr = Null =>
           got.bytes = <<>> /\ ~got.read /\ ~got.fault
      /\ slice.len # 0 /\ slice.ptr # Null /\ ValidFor(heap, slice) =>
           /\ ~got.fault
           /\ Len(got.bytes) = slice.len
           /\ \A k \in 1..slice.len : got.bytes[k] = heap[slice.ptr].data[k]

\* Both tolerated shapes have been read, and so has a slice with bytes.
C12_WitnessNullWithLength ==
    /\ view # <<>>
    /\ view[1].slice = FfiByteSlice(Null, 2)
    /\ view[1].got.bytes = <<>>

C12_WitnessDanglingEmpty ==
    /\ view # <<>>
    /\ view[1].slice = FfiByteSlice(Dangling, 0)
    /\ view[1].got.bytes = <<>>

C12_Witness ==
    /\ view # <<>>
    /\ view[1].op = "as_str_unchecked"
    /\ view[1].slice = FfiByteSlice(1, 2)
    /\ heap[1].data = << 1, 2 >>
    /\ view[1].got.bytes = << 1, 2 >>

(***************************************************************************)
(* C13: the buffer from_vec(v) or from_string(s) returns has len equal to  *)
(* the number of bytes of v or s (nothing is appended), and until it is    *)
(* freed reading len bytes at ptr yields exactly those bytes in order; an  *)
(* empty input yields len 0.                                               *)
(***************************************************************************)
C13_BufferRoundTrip ==
    \A i \in DOMAIN bufs :
        ( /\ bufs[i].via \in { "from_vec", "from_string" }
          /\ ~bufs[i].freed
          /\ ~Killed(heap) ) =>
            /\ bufs[i].buf.len = Len(bufs[i].data)
            /\ bufs[i].buf.ptr # Null
            /\ \A ub \in ReadOutcomes(MaxLen) :
                 from_raw_parts(heap, bufs[i].buf.ptr, bufs[i].buf.len, ub)
                   = [ fault |-> FALSE, bytes |-> bufs[i].data ]
            /\ bufs[i].data = <<>> => bufs[i].buf.len = 0

\* A string of two bytes in a larger allocation, and an empty vector, are held.
C13_Witness ==
    \E i, j \in DOMAIN bufs :
        /\ bufs[i].via = "from_string" /\ ~bufs[i].freed
        /\ bufs[i].data = << 1, 2 >>
        /\ bufs[i].buf.len = 2
        /\ heap[bufs[i].buf.ptr].size = 3
        /\ bufs[j].via = "from_vec" /\ ~bufs[j].freed
        /\ bufs[j].data = <<>>
        /\ bufs[j].buf.len = 0

(***************************************************************************)
(* C14 as stated: option_to_ptr(Some(v)) makes exactly one new allocation  *)
(* and returns a non-null pointer whose pointee is v; option_to_ptr(None)  *)
(* allocates nothing and returns null; free_ptr on a null pointer changes  *)
(* nothing; free_ptr on a pointer option_to_ptr returned releases exactly  *)
(* that one allocation.  This fails for a pointee of a zero-sized type,    *)
(* for which nothing is allocated, and for a pointee that owns heap        *)
(* memory, which free_ptr releases as well.                                *)
(***************************************************************************)
\* The heaps h and g agree everywhere but at the addresses in `except`.
SameBut(h, g, except) ==
    /\ Len(h) = Len(g)
    /\ \A a \in DOMAIN h \ except : h[a] = g[a]

C14_OwnedPointerPair ==
    [][ /\ Len(ptrs') = Len(ptrs) + 1 =>
             LET made == ptrs'[Len(ptrs')] IN
             IF made.v # <<>>
             THEN /\ Len(heap') = Len(heap) + 1
                  /\ SubSeq(heap', 1, Len(heap)) = heap
                  /\ made.ptr # Null
                  /\ made.ptr = Len(heap')
                  /\ heap'[made.ptr].state = "live"
                  /\ heap'[made.ptr].data = made.v[1]
             ELSE /\ made.ptr = Null
                  /\ heap' = heap
        /\ \A i \in DOMAIN ptrs :
             ~ptrs[i].freed /\ ptrs'[i].freed =>
               IF ptrs[i].ptr = Null
               THEN heap' = heap
               ELSE /\ ptrs[i].ptr \in DOMAIN heap
                    /\ heap[ptrs[i].ptr].state = "live"
                    /\ heap'[ptrs[i].ptr].state = "freed"
                    /\ SameBut(heap, heap', { ptrs[i].ptr })
      ]_vars

(***************************************************************************)
(* C14 amended: option_to_ptr(None) allocates nothing and returns null.    *)
(* option_to_ptr(Some(v)) returns a non-null pointer; for a pointee type   *)
(* of non-zero size it makes exactly one new allocation, the box, which    *)
(* holds v, and for a zero-sized type it makes none and the pointer is the *)
(* dangling one.  free_ptr on a null pointer changes nothing.  free_ptr on *)
(* a pointer option_to_ptr returned releases the box, if there is one, and *)
(* with it every allocation the pointee owns, and touches nothing else.    *)
(***************************************************************************)
\* The addresses of the allocations a value of type T owns.
OwnedBy(T, val) == IF T = "String" /\ val.cap > 0 THEN { val.ptr } ELSE { }

C14_OwnedPointerPairByType ==
    [][ /\ Len(ptrs') = Len(ptrs) + 1 =>
             LET made == ptrs'[Len(ptrs')] IN
             IF made.v = <<>>
             THEN /\ made.ptr = Null
                  /\ heap' = heap
             ELSE IF made.T = "()"
             THEN /\ made.ptr # Null
                  /\ made.ptr \notin DOMAIN heap'
                  /\ heap' = heap
             ELSE /\ Len(heap') = Len(heap) + 1
                  /\ SubSeq(heap', 1, Len(heap)) = heap
                  /\ made.ptr # Null
                  /\ made.ptr = Len(heap')
                  /\ heap'[made.ptr].state = "live"
                  /\ heap'[made.ptr].data = made.v[1]
        /\ \A i \in DOMAIN ptrs :
             ~ptrs[i].freed /\ ptrs'[i].freed =>
               IF ptrs[i].ptr = Null \/ ptrs[i].T = "()"
               THEN heap' = heap
               ELSE LET gone == { ptrs[i].ptr } \cup OwnedBy(ptrs[i].T, ptrs[i].v[1])
                    IN  /\ \A a \in gone : /\ heap[a].state = "live"
                                           /\ heap'[a].state = "freed"
                        /\ SameBut(heap, heap', gone)
      ]_vars

\* A boxed String, a boxed () and a boxed 42 have all been freed: the String's
\* buffer went with its box, and nothing was ever allocated for the ().
C14_Witness ==
    \E i, j, k \in DOMAIN ptrs :
        /\ ptrs[i].T = "String" /\ ptrs[i].v # <<>> /\ ptrs[i].freed
        /\ heap[ptrs[i].ptr].state = "freed"
        /\ heap[ptrs[i].v[1].ptr].state = "freed"
        /\ ptrs[j].T = "()" /\ ptrs[j].v # <<>> /\ ptrs[j].freed
        /\ ptrs[j].ptr = Dangling
        /\ ptrs[k].T = "u64" /\ ptrs[k].v = << 42 >> /\ ptrs[k].freed
        /\ heap[ptrs[k].ptr].data = 42 /\ heap[ptrs[k].ptr].state = "freed"
        /\ Len(heap) = 3

\* None has been converted to null and freed next to a pointer to 1 that is
\* still held.
C14_WitnessNone ==
    \E j, k \in DOMAIN ptrs :
        /\ ptrs[j].v = <<>> /\ ptrs[j].ptr = Null /\ ptrs[j].freed
        /\ ptrs[k].T = "u64" /\ ptrs[k].v = << 1 >> /\ ~ptrs[k].freed
        /\ heap[ptrs[k].ptr].state = "live"

(***************************************************************************)
(* C15: for an input that fails to parse, parser_parse returns the error   *)
(* branch with the text of the parse error, no OK payload exists, and the  *)
(* one allocation the caller owns is the error string.                     *)
(***************************************************************************)
\* The error string returned, as a buffer, at either level of the call.
ReturnedError ==
    IF ret[1].level = "trait"
    THEN [ ptr |-> ret[1].v.err.ptr, len |-> ret[1].v.err.len ]
    ELSE ret[1].v.err

C15_ErrorBranchOwnsOnlyTheString ==
    ret # <<>> /\ ~released /\ parsed.kind = "error" =>
        /\ IF ret[1].level = "trait" THEN ~ret[1].v.ok
           ELSE ret[1].v.tag = "err" /\ ret[1].v.ok = Null
        /\ ReturnedError.len = Len(parsed.text)
        /\ \A ub \in ReadOutcomes(MaxText) :
             from_raw_parts(heap, ReturnedError.ptr, ReturnedError.len, ub)
               = [ fault |-> FALSE, bytes |-> parsed.text ]
        /\ Owned(heap) = { ReturnedError.ptr }
        /\ heap[ReturnedError.ptr].what = "error"
        /\ heap[ReturnedError.ptr].state = "live"

\* parser_parse has returned Err with the text of the parse error.
C15_Witness ==
    /\ ret # <<>>
    /\ parsed.kind = "error"
    /\ ret[1].level = "trait"
    /\ ~ret[1].v.ok
    /\ heap[ret[1].v.err.ptr].data = parsed.text
    /\ Cardinality(Owned(heap)) = 1

(***************************************************************************)
(* C16: the callee neither retains nor frees the borrowed input: at every  *)
(* step of a call of parser_parse and of the release of its result, on the *)
(* success path as on the error path, the caller's input block stays live  *)
(* and unmodified, no pointer of the returned value is the input's, and    *)
(* reading the input through its FfiByteSlice changes no allocation.       *)
(***************************************************************************)
\* The pointers of an option<u256> field: the box and the buffer in it.
OptBufferPtrs(h, p) == IF p = Null THEN { } ELSE { p, h[p].data.ptr }

NativePtrs(h, n) ==
    { n.schema_prefix.ptr, n.recipient_address.ptr, n.display.ptr }
      \cup ({ n.chain_id } \ { Null })
      \cup OptBufferPtrs(h, n.value_atomic)
      \cup OptBufferPtrs(h, n.gas_limit)
      \cup OptBufferPtrs(h, n.gas_price)

Erc20Ptrs(h, e) ==
    { e.token_contract_address.ptr, e.recipient_address.ptr, e.value_atomic.ptr,
      e.display.ptr }
      \cup ({ e.chain_id } \ { Null })

RequestPtrs(h, t) ==
    CASE t.native # Null -> { t.native } \cup NativePtrs(h, h[t.native].data.value)
      [] t.erc20 # Null -> { t.erc20 } \cup Erc20Ptrs(h, h[t.erc20].data.value)
      [] t.unrecognised # Null ->
           { t.unrecognised, h[t.unrecognised].data.value.ptr }
      [] OTHER -> { }

\* Every pointer held in the value a call returned.
ReturnedPtrs(h, r) ==
    IF r.level = "trait"
    THEN IF r.v.ok THEN RequestPtrs(h, r.v.value) ELSE { r.v.err.ptr }
    ELSE IF r.v.ok # Null
         THEN { r.v.ok } \cup RequestPtrs(h, h[r.v.ok].data)
         ELSE { r.v.err.ptr }

C16_BorrowedInputUntouched ==
    [][ /\ heap'[InputPtr(heap)] = heap[InputPtr(heap)]
        /\ heap[InputPtr(heap)].state = "live"
        /\ ret' # <<>> =>
             /\ InputPtr(heap) \notin ReturnedPtrs(heap', ret'[1])
             /\ ReturnedPtrs(heap', ret'[1]) \subseteq Owned(heap')
        /\ view' # view =>
             /\ ~view'[1].got.fault
             /\ view'[1].got.bytes = heap[InputPtr(heap)].data
             /\ \A a \in DOMAIN heap : heap'[a] = heap[a]
      ]_vars

\* Both paths have returned through the exported function and the result of
\* a successful parse has been released, the input still being live.
C16_Witness ==
    /\ ret # <<>>
    /\ ret[1].level = "wire"
    /\ ret[1].v.tag = "ok"
    /\ released
    /\ view # <<>>
    /\ view[1].got.bytes = heap[InputPtr(heap)].data
    /\ heap[InputPtr(heap)].state = "live"
    /\ Cardinality(Owned(heap)) > 1

(***************************************************************************)
(* C19: what is written to witffi_types.h is the constant                  *)
(* WITFFI_TYPES_HEADER in every run, whatever the WIT input and whether    *)
(* the CLI runs for Rust or for Swift or xtask::generate runs; the copies  *)
(* xtask::generate writes are the same.                                    *)
(***************************************************************************)
TypesHeaderPaths ==
    { "witffi_types.h", "examples/eip681-ffi/witffi_types.h",
      "examples/eip681-swift/Sources/CZcashEip681/include/witffi_types.h" }

\* The write of the file f has returned Ok.
WriteSucceeded(f) ==
    \E k \in DOMAIN trace :
        trace[k].step.op = "write" /\ trace[k].step.what = f /\ trace[k].ok

C19_StaticHeaderConstant ==
    /\ \A i \in DOMAIN written :
         written[i] \in TypesHeaderPaths =>
           /\ contents[i] \in { WITFFI_TYPES_HEADER, Truncated(WITFFI_TYPES_HEADER) }
           /\ WriteSucceeded(written[i]) => contents[i] = WITFFI_TYPES_HEADER
    /\ \A i, j \in DOMAIN written :
         ( /\ written[i] \in TypesHeaderPaths /\ WriteSucceeded(written[i])
           /\ written[j] \in TypesHeaderPaths /\ WriteSucceeded(written[j]) ) =>
           contents[i] = contents[j]
    /\ job.driver # "idle" =>
         \A k \in DOMAIN CurrentPlan :
           CurrentPlan[k].op = "write" /\ CurrentPlan[k].what \in TypesHeaderPaths =>
             write_content(CurrentPlan[k].what, job.wit) = WITFFI_TYPES_HEADER

\* A Swift run of the CLI has written ffi.h from the WIT input and
\* witffi_types.h from the constant.
C19_Witness ==
    /\ job.driver = "cli"
    /\ job.lang = "swift"
    /\ \E i, j \in DOMAIN written :
         /\ written[i] = "ffi.h"
         /\ contents[i] = Generated("RustGenerator::generate_c_header", job.wit)
         /\ written[j] = "witffi_types.h"
         /\ contents[j] = WITFFI_TYPES_HEADER

\* xtask::generate has written the FFI crate's copy.
C19_WitnessXtask ==
    /\ job.driver = "xtask"
    /\ \E i \in DOMAIN written :
         /\ written[i] = "examples/eip681-ffi/witffi_types.h"
         /\ contents[i] = WITFFI_TYPES_HEADER

(***************************************************************************)
(* C20: the case conventions of the mapping operations and the place of    *)
(* the C prefixes.                                                         *)
(***************************************************************************)
LowerLetters == { Lower[k] : k \in DOMAIN Lower }

UpperLetters == { Upper[k] : k \in DOMAIN Upper }

\* Each uppercase letter's lowercase letter.
Folded == [ c \in UpperLetters |-> Lower[CHOOSE k \in DOMAIN Upper : Upper[k] = c] ]

IsLetterOrDigit(c) == c \in LowerLetters \/ c \in UpperLetters \/ c \in Digit

\* Letters and digits only, not beginning with a lowercase letter.
IsPascalCase(s) ==
    /\ s # <<>>
    /\ \A k \in DOMAIN s : IsLetterOrDigit(s[k])
    /\ s[1] \notin LowerLetters

\* Letters and digits only, not beginning with an uppercase letter.
IsLowerCamelCase(s) ==
    /\ s # <<>>
    /\ \A k \in DOMAIN s : IsLetterOrDigit(s[k])
    /\ s[1] \notin UpperLetters

\* Words of letters and digits joined by single underscores, with no letter
\* of the excluded case.
IsSeparated(s, excluded) ==
    /\ s # <<>>
    /\ \A k \in DOMAIN s :
         (IsLetterOrDigit(s[k]) /\ s[k] \notin excluded) \/ s[k] = "_"
    /\ s[1] # "_" /\ s[Len(s)] # "_"
    /\ \A k \in 1..(Len(s) - 1) : ~(s[k] = "_" /\ s[k + 1] = "_")

IsSnakeCase(s) == IsSeparated(s, UpperLetters)

IsShoutySnakeCase(s) == IsSeparated(s, LowerLetters)

\* The letters and digits of a text, in order, without their case.
Letters(s) ==
    LET kept == SelectSeq(s, IsLetterOrDigit)
    IN  [ k \in DOMAIN kept |->
            IF kept[k] \in UpperLetters THEN Folded[kept[k]] ELSE kept[k] ]

StartsWith(s, p) == Len(s) >= Len(p) /\ SubSeq(s, 1, Len(p)) = p

After(s, n) == SubSeq(s, n + 1, Len(s))

\* A name without the underscore appended to a keyword.
Unsuffixed(s) ==
    IF s # <<>> /\ s[Len(s)] = "_" THEN SubSeq(s, 1, Len(s) - 1) ELSE s

\* A name without the backticks put around a keyword.
Unquoted(s) ==
    IF Len(s) >= 2 /\ s[1] = Backtick /\ s[Len(s)] = Backtick
    THEN SubSeq(s, 2, Len(s) - 1) ELSE s

\* s is `head`, an underscore, and a name in the given case with the letters
\* of n.
PrefixedBy(s, head, n, InCase(_)) ==
    /\ StartsWith(s, head \o <<"_">>)
    /\ Letters(After(s, Len(head) + 1)) = Letters(n)
    /\ InCase(After(s, Len(head) + 1))

\* C20 (as stated): type names are PascalCase in Rust, Swift and Kotlin; a C
\* type name is the configured type prefix followed by the PascalCase name;
\* Rust identifiers are snake_case; a C function name is the configured
\* function prefix, an underscore and the snake_case name; Swift and Kotlin
\* identifiers are lowerCamelCase; a C enum discriminant is the configured
\* prefix, an underscore and the SHOUTY_SNAKE_CASE name.
C20_CaseConventionsAsConfigured ==
    \A i \in DOMAIN mapped :
        /\ last_op \in { "to_rust_type", "to_swift_type", "to_kotlin_type" } =>
             IsPascalCase(mapped[i]) /\ Letters(mapped[i]) = Letters(scope[i])
        /\ last_op = "to_c_type" =>
             /\ StartsWith(mapped[i], c_prefix)
             /\ IsPascalCase(After(mapped[i], Len(c_prefix)))
             /\ Letters(After(mapped[i], Len(c_prefix))) = Letters(scope[i])
        /\ last_op = "to_rust_ident" =>
             IsSnakeCase(mapped[i]) /\ Letters(mapped[i]) = Letters(scope[i])
        /\ last_op = "to_c_func" =>
             PrefixedBy(mapped[i], c_prefix, scope[i], IsSnakeCase)
        /\ last_op \in { "to_swift_ident", "to_kotlin_ident" } =>
             IsLowerCamelCase(mapped[i]) /\ Letters(mapped[i]) = Letters(scope[i])
        /\ last_op = "to_c_enum_variant" =>
             PrefixedBy(mapped[i], c_prefix, scope[i], IsShoutySnakeCase)

\* Some text in the given case with the letters of the prefix begins s, followed by
\* an underscore and a name in the given case with the letters of n.
PrefixedInCase(s, prefix, n, InCase(_)) ==
    \E k \in 1..(Len(s) - 1) :
        /\ s[k + 1] = "_"
        /\ Letters(SubSeq(s, 1, k)) = Letters(prefix)
        /\ InCase(SubSeq(s, 1, k))
        /\ PrefixedBy(s, SubSeq(s, 1, k), n, InCase)

\* C20 (amended): type names are PascalCase in Rust, Swift and Kotlin; a C
\* type name is the type prefix as configured followed by the PascalCase
\* name; Rust identifiers are snake_case, and Swift and Kotlin identifiers
\* lowerCamelCase, before keyword escaping; a C function name is the function
\* prefix converted to snake_case, an underscore and the snake_case name, and
\* is snake_case as a whole; a C enum discriminant is the prefix converted to
\* SHOUTY_SNAKE_CASE, an underscore and the SHOUTY_SNAKE_CASE name.
C20_CaseConventions ==
    \A i \in DOMAIN mapped :
        /\ last_op \in { "to_rust_type", "to_swift_type", "to_kotlin_type" } =>
             IsPascalCase(mapped[i]) /\ Letters(mapped[i]) = Letters(scope[i])
        /\ last_op = "to_c_type" =>
             /\ StartsWith(mapped[i], c_prefix)
             /\ IsPascalCase(After(mapped[i], Len(c_prefix)))
             /\ Letters(After(mapped[i], Len(c_prefix))) = Letters(scope[i])
        /\ last_op = "to_rust_ident" =>
             /\ IsSnakeCase(Unsuffixed(mapped[i]))
             /\ Letters(mapped[i]) = Letters(scope[i])
        /\ last_op = "to_c_func" =>
             /\ IsSnakeCase(mapped[i])
             /\ PrefixedInCase(mapped[i], c_prefix, scope[i], IsSnakeCase)
        /\ last_op \in { "to_swift_ident", "to_kotlin_ident" } =>
             /\ IsLowerCamelCase(Unquoted(mapped[i]))
             /\ Letters(mapped[i]) = Letters(scope[i])
        /\ last_op = "to_c_enum_variant" =>
             /\ IsShoutySnakeCase(mapped[i])
             /\ PrefixedInCase(mapped[i], c_prefix, scope[i], IsShoutySnakeCase)

\* The function prefix Ffi has been applied: it appears as ffi.
C20_Witness ==
    /\ last_op = "to_c_func"
    /\ c_prefix = <<"F","f","i">>
    /\ scope = << <<"c","h","a","i","n","-","i","d">> >>
    /\ mapped = << <<"f","f","i","_","c","h","a","i","n","_","i","d">> >>

(***************************************************************************)
(* C21.  When no native library name is supplied, the library name used    *)
(* for generation is derived from the WIT package, for the Kotlin target   *)
(* as for the Rust target: in a CLI run for Rust or Kotlin without         *)
(* --lib-name, the name the generator called uses is the one derived from  *)
(* the package of the loaded world.                                        *)
(***************************************************************************)
C21_LibraryNameFromPackage ==
    \A i \in DOMAIN config :
        ( /\ job.driver = "cli"
          /\ job.lang \in {"rust", "kotlin"}
          /\ job.lib_name = << >> )
        => library_name_used(config[i], job.wit.package)
             = derived_library_name(job.wit.package)

(***************************************************************************)
(* C22.  For every accepted WIT world SwiftGenerator::generate succeeds:   *)
(* whenever a run calls it (the world was loaded, and the generators       *)
(* called before it returned their text), the call returns Ok.             *)
(***************************************************************************)
C22_SwiftGenerateSucceeds ==
    \A i \in DOMAIN trace :
        ( /\ trace[i].step.what = "SwiftGenerator::generate"
          /\ loaded # << >> /\ loaded[1].ok
          /\ \A k \in 1..(i - 1) : trace[k].step.op = "generate" => trace[k].ok )
        => trace[i].ok

(***************************************************************************)
(* C23.  FfiByteBuffer::free hands the allocator the pointer and the       *)
(* capacity the buffer's memory was allocated with: for every buffer made  *)
(* by from_vec or from_string on which free has rebuilt and dropped the    *)
(* Vec, the pointer and the capacity of the rebuilt Vec are those of the   *)
(* original vector, also when its capacity was larger than its length.     *)
(***************************************************************************)
C23_FreeUsesOriginalCapacity ==
    \A i \in DOMAIN bufs :
        ( /\ bufs[i].freed
          /\ bufs[i].via \in {"from_vec", "from_string"}
          /\ bufs[i].buf.ptr # Null /\ bufs[i].buf.len > 0 )
        => /\ free_raw_parts(bufs[i].buf).ptr = bufs[i].owned
           /\ free_raw_parts(bufs[i].buf).cap = heap[bufs[i].owned].size

(***************************************************************************)
(* C24.  At every point of a CLI run, failed or not, the files written so  *)
(* far are a prefix of the target's fixed write order; a file once written *)
(* stays written, whatever step fails after it; and when load_wit fails    *)
(* nothing has been written and the output directory has not been created. *)
(***************************************************************************)
WriteOrder(lang) ==
    CASE lang = "rust" -> << "ffi.rs", "ffi.h", "witffi_types.h" >>
      [] lang = "swift" -> << "ffi.h", "witffi_types.h", "Bindings.swift",
                              "module.modulemap" >>
      [] lang = "kotlin" -> << "Bindings.kt" >>

IsPrefixOf(s, t) == Len(s) <= Len(t) /\ SubSeq(t, 1, Len(s)) = s

C24_PrefixOfWriteOrder ==
    job.driver = "cli" =>
        /\ IsPrefixOf(written, WriteOrder(job.lang))
        /\ (loaded # << >> /\ ~loaded[1].ok) =>
               /\ written = << >>
               /\ status = "failed"
               /\ \A i \in DOMAIN trace : trace[i].step.op # "create_dir_all"

C24_WrittenFilesStay == job.driver = "cli" => IsPrefixOf(written, written')

C24_WrittenPrefix == [] C24_PrefixOfWriteOrder /\ [][C24_WrittenFilesStay]_vars

\* A Rust run of the CLI has failed writing ffi.h after the file was created:
\* ffi.rs and a part of ffi.h are there.
C24_Witness ==
    /\ job.driver = "cli"
    /\ job.lang = "rust"
    /\ status = "failed"
    /\ written = << "ffi.rs", "ffi.h" >>
    /\ trace[Len(trace)].step.what = "ffi.h"
    /\ trace[Len(trace)].outcome = "failed_after_open"
    /\ contents[2] = Truncated(Generated("RustGenerator::generate_c_header", job.wit))

\* A CLI run has failed in load_wit: no directory was created, no file written.
C24_WitnessLoadFailed ==
    /\ job.driver = "cli"
    /\ loaded # << >>
    /\ ~loaded[1].ok
    /\ status = "failed"
    /\ Len(trace) = 1

(***************************************************************************)
(* C25.  The world count load_wit checks is taken over different sets for  *)
(* the two input kinds: for a directory over every world of every package  *)
(* the resolve holds after loading, for a single file over the worlds of   *)
(* the parsed package only.  A directory is accepted only when the whole   *)
(* resolve holds exactly one world, and the count reported is the count    *)
(* over the set of the input's kind.                                       *)
(***************************************************************************)
AllPackagesWorlds(wit) == SumTo(wit.pkgs, Len(wit.pkgs))

OwnPackageWorlds(wit) == wit.pkgs[wit.main]

CountedWorlds(wit) ==
    IF wit.kind = "dir" THEN AllPackagesWorlds(wit) ELSE OwnPackageWorlds(wit)

C25_CountedSetByInputKind ==
    (loaded # << >> /\ job.wit.fault = "none") =>
        /\ loaded[1].ok <=> CountedWorlds(job.wit) = 1
        /\ ~loaded[1].ok =>
             /\ loaded[1].error = "WorldCount"
             /\ loaded[1].count = << CountedWorlds(job.wit) >>
        /\ (job.wit.kind = "dir" /\ loaded[1].ok) => AllPackagesWorlds(job.wit) = 1

\* A directory whose own package defines one world, loaded with a second
\* package that defines another, has been rejected with count 2.
C25_Witness ==
    /\ loaded # << >>
    /\ job.wit.kind = "dir"
    /\ job.wit.fault = "none"
    /\ OwnPackageWorlds(job.wit) = 1
    /\ AllPackagesWorlds(job.wit) = 2
    /\ loaded[1].error = "WorldCount"
    /\ loaded[1].count = << 2 >>

\* The same packages given as a single file have been accepted.
C25_WitnessFile ==
    /\ loaded # << >>
    /\ job.wit.kind = "file"
    /\ job.wit.fault = "none"
    /\ OwnPackageWorlds(job.wit) = 1
    /\ AllPackagesWorlds(job.wit) = 2
    /\ loaded[1].ok

(***************************************************************************)
(* C26.  In xtask::generate (and in build.rs, which holds the same         *)
(* statement) the outcome of the rustfmt invocation is ignored: whether    *)
(* rustfmt cannot be started, exits with a failure or succeeds, the run    *)
(* goes on with the same later steps, writes the same files and returns    *)
(* the same result.  The steps executed, the files created and the result  *)
(* are those the outcomes of the other steps alone determine.              *)
(***************************************************************************)
\* The positions of the steps executed other than rustfmt.
OtherSteps == { i \in DOMAIN trace : trace[i].step.op # "rustfmt" }

\* The result the other steps alone give the run.
ResultOfOthers ==
    IF \E i \in OtherSteps : ~trace[i].ok
    THEN IF job.driver = "xtask" THEN "failed" ELSE "panicked"
    ELSE IF Len(trace) = Len(CurrentPlan) THEN "ok"
    ELSE "running"

C26_RustfmtOutcomeIgnored ==
    job.driver \in {"xtask", "build"} =>
        /\ \A i \in DOMAIN trace : trace[i].step = CurrentPlan[i]
        /\ status = ResultOfOthers
        /\ written = CreatedBy(OtherSteps)
        /\ \A i \in DOMAIN trace :
             (trace[i].step.op = "rustfmt" /\ i = Len(trace)) =>
                 /\ status = "running"
                 /\ CurrentPlan[i + 1] =
                      Step("generate", "RustGenerator::generate_c_header")

\* rustfmt could not be started, and the run went on to write the C header.
C26_Witness ==
    /\ job.driver = "xtask"
    /\ \E i \in DOMAIN trace :
         /\ trace[i].step.op = "rustfmt"
         /\ trace[i].outcome = "not_started"
    /\ Len(written) = 2
    /\ written[2] = "examples/eip681-ffi/ffi.h"
    /\ WriteSucceeded(written[2])

\* rustfmt exited with a failure, and the run went on to write the C header.
C26_WitnessExitFailure ==
    /\ job.driver = "xtask"
    /\ \E i \in DOMAIN trace :
         /\ trace[i].step.op = "rustfmt"
         /\ trace[i].outcome = "exit_failure"
    /\ Len(written) = 2
    /\ written[2] = "examples/eip681-ffi/ffi.h"
    /\ WriteSucceeded(written[2])

\* rustfmt could not be started in build.rs, and the script ended in success
\* with its four files written.
C26_WitnessBuildRs ==
    /\ job.driver = "build"
    /\ \E i \in DOMAIN trace :
         /\ trace[i].step.op = "rustfmt"
         /\ trace[i].outcome = "not_started"
    /\ status = "ok"
    /\ Len(written) = 4
====
